---- MODULE Spec2Model ----
(***************************************************************************)
(* Multi-route retrieval and fusion: FusionRanker (retrieval/fusion.py),   *)
(* RetrieverService (retrieval/retriever.py), QueryRewriter                *)
(* (retrieval/query_rewriter.py) and the /retrieve handler                 *)
(* (api/retrieve.py).                                                      *)
(*                                                                         *)
(* Python dicts are modelled as TLA+ functions over their keys, ordered    *)
(* dicts (results_by_route, all_results) as sequences in insertion order.  *)
(* Python floats are modelled as exact rationals <<numerator, denominator>>*)
(* in lowest terms with a positive denominator; raw scores and weights are *)
(* integers counted in a fixed unit (ScoreUnit = 0.05, WeightUnit = 0.5),  *)
(* which min-max normalization and weight normalization cancel.            *)
(***************************************************************************)
EXTENDS Integers, Sequences, FiniteSets, TLC

VARIABLES
    \* one RetrieverService.retrieve call
    request,            \* the request dict
    pc,                 \* PARSED, REWRITING, DISPATCHING, FUSING, TRUNCATING, DONE
    query_used,
    keywords,
    llm,                \* the rewriter's llm_service.generate_text call
    tasks,              \* route names in dispatch order
    task,               \* route name -> state of its coroutine and backend call
    results_by_route,
    fused_results,
    response,
    \* the FusionRanker.fuse call: made by retrieve, or made directly
    fuse_args,
    fuse_ret,
    \* two retrieve calls running concurrently on one RetrieverService
    calls,
    \* one load_config call: what it reads, and its ConfigLoader
    sources,            \* the configuration file, os.environ and the parsed arguments
    loader,             \* position of load_config, _config_dict, the built configuration
    \* ConfigVersionManager over the config_versions table
    versions,           \* version_id -> row
    version_call        \* the last call made on the manager and what it returned

vars == <<request, pc, query_used, keywords, llm, tasks, task, results_by_route,
          fused_results, response, fuse_args, fuse_ret, calls,
          sources, loader, versions, version_call>>

retrieve_vars == <<request, pc, query_used, keywords, llm, tasks, task,
                   results_by_route, fused_results, response>>

config_vars == <<sources, loader, versions, version_call>>

\* no load_config call and no ConfigVersionManager in the run
IdleConfig ==
    /\ sources = [given |-> FALSE]
    /\ loader = [pc |-> "IDLE"]
    /\ versions = <<>>
    /\ version_call = [op |-> "none"]

\* ------------------------------------------------------------------------
\* Bounds of the model
\* ------------------------------------------------------------------------
MaxRecords == 4

MaxTopK == 3

\* ------------------------------------------------------------------------
\* Float arithmetic as exact rationals
\* ------------------------------------------------------------------------
Abs(x) == IF x < 0 THEN -x ELSE x

RECURSIVE GCD(_, _)
GCD(a, b) == IF b = 0 THEN a ELSE GCD(b, a % b)

\* n / d  (d # 0)
Rat(n, d) ==
    LET g == GCD(Abs(n), Abs(d))
        s == IF d < 0 THEN -1 ELSE 1
    IN  <<(s * n) \div g, (s * d) \div g>>

Zero == <<0, 1>>

One == <<1, 1>>

RAdd(p, q) == Rat(p[1] * q[2] + q[1] * p[2], p[2] * q[2])

RMul(p, q) == Rat(p[1] * q[1], p[2] * q[2])

RLess(p, q) == p[1] * q[2] < q[1] * p[2]

RLeq(p, q) == p[1] * q[2] <= q[1] * p[2]

\* ------------------------------------------------------------------------
\* dict helpers
\* ------------------------------------------------------------------------
\* Python values whose type the code tests or relies on
PyBool(b) == [type |-> "bool", b |-> b]

PyStr(s) == [type |-> "str", s |-> s]

PyList(items) == [type |-> "list", items |-> items]

PyDict(fields) == [type |-> "dict", fields |-> fields]

\* the truth value of a Python value: False, "", [] and {} are falsy
Truthy(value) ==
    IF value.type = "bool" THEN value.b
    ELSE IF value.type = "str" THEN value.s # ""
    ELSE IF value.type = "list" THEN value.items # <<>>
    ELSE DOMAIN value.fields # {}

\* d.get(key, default)
DictGet(d, key, default) == IF key \in DOMAIN d THEN d[key] ELSE default

\* r.get("score", 0.0)
GetScore(r) == IF "score" \in DOMAIN r THEN r["score"] ELSE 0

\* r.get("chunk_id"): a missing key gives None, which is falsy like ""
GetChunkId(r) == IF "chunk_id" \in DOMAIN r THEN r["chunk_id"] ELSE ""

\* sum(weights.values())
RECURSIVE SumValues(_, _)
SumValues(f, keys) ==
    IF keys = {} THEN 0
    ELSE LET k == CHOOSE x \in keys : TRUE
         IN  f[k] + SumValues(f, keys \ {k})

SeqMin(s) == CHOOSE x \in {s[i] : i \in 1..Len(s)} : \A j \in 1..Len(s) : x <= s[j]

SeqMax(s) == CHOOSE x \in {s[i] : i \in 1..Len(s)} : \A j \in 1..Len(s) : x >= s[j]

\* the chunk ids of a result list
IdsOf(list) == {GetChunkId(list[i]) : i \in 1..Len(list)}

\* a lookup that never finds the chunk_id
IndexOfNothing(all, cid) == 0

\* position of chunk_id in the insertion-ordered all_results, 0 when absent
IndexOf(all, cid) ==
    IF \E i \in 1..Len(all) : all[i]["chunk_id"] = cid
    THEN CHOOSE i \in 1..Len(all) : all[i]["chunk_id"] = cid
    ELSE 0

\* list.sort(key=..., reverse=True) / sorted(..., reverse=True): stable, so
\* elements with equal keys keep their relative order.  keys[i] is the sort
\* key of the i-th element, as a rational; order is a sequence of indices.
RECURSIVE InsertDesc(_, _, _)
InsertDesc(order, i, keys) ==
    \* i goes in front of the first element whose key is strictly smaller
    IF order = <<>> THEN <<i>>
    ELSE IF RLess(keys[Head(order)], keys[i])
         THEN <<i>> \o order
         ELSE <<Head(order)>> \o InsertDesc(Tail(order), i, keys)

RECURSIVE SortOrder(_, _, _)
SortOrder(keys, i, order) ==
    IF i > Len(keys) THEN order
    ELSE SortOrder(keys, i + 1, InsertDesc(order, i, keys))

SortDesc(items, keys) ==
    LET order == SortOrder(keys, 1, <<>>)
    IN  [n \in 1..Len(items) |-> items[order[n]]]

\* ------------------------------------------------------------------------
\* FusionRanker (retrieval/fusion.py)
\*
\* by_route (results_by_route): sequence of [route |-> name, results |-> <<record, ...>>]
\* in the dict's iteration (insertion) order.  weights: function route -> weight.
\* ------------------------------------------------------------------------
RRF_K == 60

\* 1.0, the weight fuse gives every route when no weights are supplied
DefaultWeight == 2

\* weighted_sum: "Normalize weights"
NormalizeWeights(weights) ==
    LET total_weight == SumValues(weights, DOMAIN weights)
    IN  IF total_weight = 0
        THEN [route \in DOMAIN weights |-> Rat(1, Cardinality(DOMAIN weights))]
        ELSE [route \in DOMAIN weights |-> Rat(weights[route], total_weight)]

\* normalized_weights.get(route, 0.0)
WeightOf(normalized_weights, route) ==
    IF route \in DOMAIN normalized_weights THEN normalized_weights[route] ELSE Zero

\* a normalization that divides the raw score, not its distance from the minimum
NormalizedWithoutMin(score, min_score, score_range) ==
    IF score_range > 0 THEN Rat(score, score_range) ELSE One

\* a normalization that gives an all-equal route 0.0
NormalizedDegenerateZero(score, min_score, score_range) ==
    IF score_range > 0 THEN Rat(score - min_score, score_range) ELSE Zero

\* weighted_sum: "Min-max normalization"
NormalizedScore(score, min_score, score_range) ==
    IF score_range > 0 THEN Rat(score - min_score, score_range) ELSE One

\* a payload copy in which the later route overwrites
MergePayloadLastWins(data, result) == result @@ data

\* "Store original result data": a key already in the entry is kept
MergePayload(data, result) == data @@ result

\* an update that assigns final_score instead of adding to it
AccumulateAssign(all, route, result, route_score, contribution) ==
    LET chunk_id == GetChunkId(result)
        i        == IndexOf(all, chunk_id)
        data     == IF i = 0 THEN [route_scores |-> <<>>, final_score |-> Zero]
                    ELSE all[i]
        scored   == [data EXCEPT
                        !["route_scores"] = (route :> route_score) @@ @,
                        !["final_score"]  = contribution]
        merged   == MergePayload(scored, result)
    IN  IF i = 0 THEN Append(all, merged) ELSE [all EXCEPT ![i] = merged]

\* all_results[chunk_id]: route_scores[route] = s; final_score += c; merge payload
Accumulate(all, route, result, route_score, contribution) ==
    LET chunk_id == GetChunkId(result)
        i        == IndexOf(all, chunk_id)
        data     == IF i = 0 THEN [route_scores |-> <<>>, final_score |-> Zero]
                    ELSE all[i]
        scored   == [data EXCEPT
                        !["route_scores"] = (route :> route_score) @@ @,
                        !["final_score"]  = RAdd(@, contribution)]
        merged   == MergePayload(scored, result)
    IN  IF i = 0 THEN Append(all, merged) ELSE [all EXCEPT ![i] = merged]

\* weighted_sum: the inner loop over one route's results
RECURSIVE WsResults(_, _, _, _, _, _, _)
WsResults(all, route, results, i, min_score, score_range, weight) ==
    IF i > Len(results) THEN all
    ELSE LET result == results[i]
             normalized_score ==
                 NormalizedScore(GetScore(result), min_score, score_range)
             next == IF GetChunkId(result) = "" THEN all
                     ELSE Accumulate(all, route, result, normalized_score,
                                     RMul(normalized_score, weight))
         IN  WsResults(next, route, results, i + 1, min_score, score_range, weight)

\* weighted_sum: the outer loop over by_route.items()
RECURSIVE WsRoutes(_, _, _, _)
WsRoutes(all, by_route, j, normalized_weights) ==
    IF j > Len(by_route) THEN all
    ELSE LET route   == by_route[j].route
             results == by_route[j].results
         IN  IF results = <<>>
             THEN WsRoutes(all, by_route, j + 1, normalized_weights)
             ELSE LET scores      == [i \in 1..Len(results) |-> GetScore(results[i])]
                      min_score   == SeqMin(scores)
                      max_score   == SeqMax(scores)
                      score_range == max_score - min_score
                      weight      == WeightOf(normalized_weights, route)
                  IN  WsRoutes(WsResults(all, route, results, 1, min_score,
                                         score_range, weight),
                               by_route, j + 1, normalized_weights)

\* a conversion that leaves the records in insertion order
FinalizeUnsorted(all) ==
    [n \in 1..Len(all) |->
        [key \in DOMAIN all[n] \cup {"score"} |->
            IF key = "score" THEN all[n]["final_score"] ELSE all[n][key]]]

\* "Convert to list and sort by final score"
Finalize(all) ==
    LET fused ==
            [n \in 1..Len(all) |->
                [key \in DOMAIN all[n] \cup {"score"} |->
                    IF key = "score" THEN all[n]["final_score"] ELSE all[n][key]]]
    IN  SortDesc(fused, [n \in 1..Len(all) |-> fused[n]["score"]])

weighted_sum(by_route, weights) ==
    IF by_route = <<>> THEN <<>>
    ELSE Finalize(WsRoutes(<<>>, by_route, 1, NormalizeWeights(weights)))

\* a rank counted from 0
RrfScoreZeroBased(k, rank) == Rat(1, k + rank - 1)

\* rrf: "RRF formula: 1 / (k + rank)"
RrfScore(k, rank) == Rat(1, k + rank)

\* rrf: the inner loop over enumerate(sorted_results, start=1)
RECURSIVE RrfResults(_, _, _, _, _)
RrfResults(all, route, sorted_results, rank, k) ==
    IF rank > Len(sorted_results) THEN all
    ELSE LET result    == sorted_results[rank]
             rrf_score == RrfScore(k, rank)
             next == IF GetChunkId(result) = "" THEN all
                     ELSE Accumulate(all, route, result, rrf_score, rrf_score)
         IN  RrfResults(next, route, sorted_results, rank + 1, k)

\* rrf: the outer loop over by_route.items()
RECURSIVE RrfRoutes(_, _, _, _)
RrfRoutes(all, by_route, j, k) ==
    IF j > Len(by_route) THEN all
    ELSE LET route   == by_route[j].route
             results == by_route[j].results
         IN  IF results = <<>>
             THEN RrfRoutes(all, by_route, j + 1, k)
             ELSE LET sorted_results ==
                          SortDesc(results, [i \in 1..Len(results) |->
                                                Rat(GetScore(results[i]), 1)])
                  IN  RrfRoutes(RrfResults(all, route, sorted_results, 1, k),
                                by_route, j + 1, k)

rrf(by_route, k) ==
    IF by_route = <<>> THEN <<>>
    ELSE Finalize(RrfRoutes(<<>>, by_route, 1, k))

\* {route: 1.0 for route in by_route.keys()}
EqualWeights(by_route) ==
    [route \in {by_route[j].route : j \in 1..Len(by_route)} |->
        DefaultWeight]

\* weights: [none |-> TRUE] for None, [none |-> FALSE, map |-> dict] otherwise
fuse(by_route, method, weights) ==
    IF method = "weighted_sum"
    THEN weighted_sum(by_route,
                      IF weights.none THEN EqualWeights(by_route)
                      ELSE weights.map)
    ELSE IF method = "rrf"
    THEN rrf(by_route, RRF_K)
    ELSE \* unknown method: weights or {route: 1.0 ...}
         weighted_sum(by_route,
                      IF weights.none \/ DOMAIN weights.map = {}
                      THEN EqualWeights(by_route)
                      ELSE weights.map)

\* ------------------------------------------------------------------------
\* RetrieverService (retrieval/retriever.py)
\* ------------------------------------------------------------------------
\* a slice that keeps one record too many
TakeOneMore(s, n) == SubSeq(s, 1, IF n + 1 < Len(s) THEN n + 1 ELSE Len(s))

\* fused_results[:top_k]  (top_k > 0)
Take(s, n) == SubSeq(s, 1, IF n < Len(s) THEN n ELSE Len(s))

\* "score": result.get("score", 0.0) -- a fused record carries the fused
\* rational, a passed-through record its raw score
FormatScore(result) ==
    IF "final_score" \in DOMAIN result THEN result["score"]
    ELSE Rat(GetScore(result), 1)

\* "Format results with metadata"
FormatResult(result) ==
    [chunk_id     |-> GetChunkId(result),
     score        |-> FormatScore(result),
     route_scores |-> IF "route_scores" \in DOMAIN result
                      THEN result["route_scores"] ELSE <<>>,
     content      |-> IF "content" \in DOMAIN result THEN result["content"] ELSE ""]

\* query = request.get("query", "")
QueryOf(req) == IF "query" \in DOMAIN req THEN req["query"] ELSE ""

\* vector_config = routes.get("vector", {})
VectorConfig(routes) == DictGet(routes, "vector", PyDict(<<>>))

\* vector_config.get(...) raises AttributeError when the value has no .get
RoutesRaise(routes) == VectorConfig(routes).type # "dict"

\* if routes.get("es_text", False)
EsTextEnabled(routes) == Truthy(DictGet(routes, "es_text", PyBool(FALSE)))

\* if vector_config.get("enabled", False)
VectorEnabled(routes) ==
    Truthy(DictGet(VectorConfig(routes).fields, "enabled", PyBool(FALSE)))

\* backend = vector_config.get("backend", "milvus")
VectorBackend(routes) ==
    DictGet(VectorConfig(routes).fields, "backend", PyStr("milvus")).s

\* the task list built from routes: es_text first, then vector_<backend>
BuildTasks(routes) ==
    (IF EsTextEnabled(routes) THEN <<"es_text">> ELSE <<>>)
    \o (IF VectorEnabled(routes) THEN <<"vector_" \o VectorBackend(routes)>> ELSE <<>>)

\* _search_vector: the backends it knows
KnownBackends == {"milvus", "es", "clickhouse"}

\* a dispatch that sends every vector route to some backend
CallsBackendAlways(route) == TRUE

\* does the coroutine of this route call a backend at all
CallsBackend(route) ==
    route = "es_text" \/ route \in {"vector_" \o b : b \in KnownBackends}

\* an except clause that returns an error marker instead of []
RouteValueErrorRecord(outcome, hits) ==
    IF outcome = "returned" THEN hits ELSE <<[error |-> "search failed"]>>

\* _search_es_text / _search_vector: what the coroutine returns for the
\* outcome of its backend call; any exception becomes []
RouteValue(outcome, hits) ==
    IF outcome = "returned" THEN hits ELSE <<>>

\* a collection that takes the results in the order the coroutines finished
CollectCompletionOrder(names, t, j) ==
    IF j > Len(names) THEN <<>>
    ELSE [k \in 1..(Len(names) - j + 1) |->
            LET name == CHOOSE nm \in {names[i] : i \in 1..Len(names)} :
                            t[nm].finished = k + j - 1
            IN  [route |-> name, results |-> t[name].value]]

\* the loop over zip(tasks, completed_tasks)
RECURSIVE Collect(_, _, _)
Collect(names, t, j) ==
    IF j > Len(names) THEN <<>>
    ELSE (IF t[names[j]].exception THEN <<>>
          ELSE <<[route |-> names[j], results |-> t[names[j]].value]>>)
         \o Collect(names, t, j + 1)

\* a wait that returns as soon as one coroutine has finished
GatherFirstCompleted(names, t) ==
    \E j \in 1..Len(names) : t[names[j]].state = "done"

\* asyncio.gather(...) returns once every awaited coroutine has finished
GatherDone(names, t) == \A j \in 1..Len(names) : t[names[j]].state = "done"

\* fusion_config.get("weights", {})
FusionWeights(fusion) ==
    IF fusion.has_weights THEN [none |-> FALSE, map |-> fusion.weights]
    ELSE [none |-> FALSE, map |-> <<>>]

\* "Fusion of results"
FuseOrPass(rbr, fusion) ==
    IF Len(rbr) > 1 THEN fuse(rbr, fusion.method, FusionWeights(fusion))
    ELSE IF Len(rbr) = 1 THEN rbr[1].results
    ELSE <<>>

\* ------------------------------------------------------------------------
\* QueryRewriter (retrieval/query_rewriter.py)
\*
\* A reply of llm_service.generate_text is [kind |-> "raise"] (the call
\* raises), [kind |-> "text"] (text that is not JSON) or [kind |-> "json",
\* value |-> v] (text that json.loads parses to the Python value v).
\* ------------------------------------------------------------------------
\* str(value) of a value that is not a list
StrOf(value) == IF value.type = "str" THEN value.s ELSE "{...}"

\* json.loads(response.strip()): the parsed value, or a ValueError
JsonLoads(reply) ==
    IF reply.kind = "json" THEN [ok |-> TRUE, value |-> reply.value]
    ELSE [ok |-> FALSE, value |-> PyStr("")]

\* a fallback that hands back nothing at all
RewriteFallbackEmpty(query) == [query |-> "", keywords |-> <<>>]

\* the except clause of rewrite_keywords and of rewrite_llm
RewriteFallback(query) == [query |-> query, keywords |-> <<query>>]

\* if not isinstance(keywords, list): keywords = [str(keywords)]
AsKeywordList(value) ==
    IF value.type = "list" THEN value.items ELSE <<StrOf(value)>>

rewrite_keywords(query, reply) ==
    IF reply.kind = "raise" \/ ~JsonLoads(reply).ok THEN RewriteFallback(query)
    ELSE [query    |-> query,
          keywords |-> AsKeywordList(JsonLoads(reply).value)]

\* result.get(...) on a value that is not a dict raises AttributeError
rewrite_llm(query, reply) ==
    IF reply.kind = "raise" \/ ~JsonLoads(reply).ok THEN RewriteFallback(query)
    ELSE LET result == JsonLoads(reply).value
         IN  IF result.type # "dict" THEN RewriteFallback(query)
             ELSE [query    |-> IF "query" \in DOMAIN result.fields
                                 THEN result.fields["query"].s ELSE query,
                   keywords |-> IF "keywords" \in DOMAIN result.fields
                                 THEN AsKeywordList(result.fields["keywords"])
                                 ELSE <<query>>]

\* a dispatch that sends an unknown method to rewrite_llm
RewriteUnknownAsLlm(query, method, reply) ==
    IF method = "keywords" THEN rewrite_keywords(query, reply)
    ELSE rewrite_llm(query, reply)

\* an unknown method falls back to keywords
rewrite(query, method, reply) ==
    IF method = "keywords" THEN rewrite_keywords(query, reply)
    ELSE IF method = "llm" THEN rewrite_llm(query, reply)
    ELSE rewrite_keywords(query, reply)

\* ------------------------------------------------------------------------
\* Inputs of one retrieve call
\* ------------------------------------------------------------------------
ChunkIds == {"x1", "x2", "x3"}

Backends == KnownBackends \cup {"faiss"}

\* {"es_text": e, "vector": {"enabled": v, "backend": b}}
Routes(e, v, b) ==
    "es_text" :> PyBool(e)
    @@ "vector" :> PyDict("enabled" :> PyBool(v) @@ "backend" :> PyStr(b))

RouteConfigs == {Routes(e, v, b) : e \in BOOLEAN, v \in BOOLEAN, b \in Backends}

RewriteConfigs ==
    {[enabled |-> FALSE, method |-> "keywords"],
     [enabled |-> TRUE,  method |-> "keywords"],
     [enabled |-> TRUE,  method |-> "llm"]}

Json(value) == [kind |-> "json", value |-> value]

\* what the LLM can answer: the call raises; text that is not JSON; a JSON
\* array; JSON objects with and without a query, the query empty or not
LlmReplies ==
    {[kind |-> "raise"],
     [kind |-> "text"],
     Json(PyList(<<"k1", "k2">>)),
     Json(PyDict("query" :> PyStr("q2") @@ "keywords" :> PyList(<<"k1">>))),
     Json(PyDict("keywords" :> PyList(<<"k1">>))),
     Json(PyDict("query" :> PyStr("") @@ "keywords" :> PyList(<<"k1">>)))}

NoLlmCall == [state |-> "idle", reply |-> [kind |-> "none"]]

FusionConfigs ==
    {[method |-> m, has_weights |-> FALSE, weights |-> <<>>] :
        m \in {"weighted_sum", "rrf", "borda"}}
    \cup
    {[method |-> m, has_weights |-> TRUE,
      weights |-> ("es_text" :> 1 @@ "vector_milvus" :> 1)] :
        m \in {"weighted_sum", "rrf", "borda"}}

Requests ==
    {[query |-> "q", top_k |-> k, routes |-> r, rewrite |-> w, fusion |-> f] :
        k \in 1..MaxTopK, r \in RouteConfigs, w \in RewriteConfigs,
        f \in FusionConfigs}

\* What the awaited search call of a route can hand back to its coroutine: up
\* to MaxHits candidate records with distinct chunk ids, highest score first,
\* on the backend's own score scale, carrying the backend's own payload.  The
\* search backends are collaborators behind that call: it returns or it raises.
MaxHits == 2

HitScore(route, i) == IF route = "es_text" THEN 100 * (MaxHits + 2 - i) ELSE 20 - i

HitLists(route) ==
    {[i \in 1..Len(ids) |->
        [chunk_id |-> ids[i], score |-> HitScore(route, i), content |-> route]] :
     ids \in {s \in UNION {[1..n -> ChunkIds] : n \in 0..MaxHits} :
                \A a, b \in 1..Len(s) : a # b => s[a] # s[b]}}

NoFuseCall ==
    /\ fuse_args = [by_route |-> <<>>, method |-> "weighted_sum",
                    weights |-> [none |-> TRUE]]
    /\ fuse_ret = [returned |-> FALSE, value |-> <<>>]

NoCalls == <<>>

NoResponse == [status |-> "none", query_used |-> "", results |-> <<>>]

Init ==
    /\ request \in Requests
    /\ pc = "PARSED"
    /\ query_used = QueryOf(request)
    /\ keywords = <<>>
    /\ llm = NoLlmCall
    /\ tasks = <<>>
    /\ task = <<>>
    /\ results_by_route = <<>>
    /\ fused_results = <<>>
    /\ response = NoResponse
    /\ NoFuseCall
    /\ calls = NoCalls
    /\ IdleConfig

\* ------------------------------------------------------------------------
\* retrieve, one step per stretch of code between two suspension points
\* ------------------------------------------------------------------------
\* the coroutine object of one route: _search_es_text(query_used, ...) or
\* _search_vector(query_used, ..., backend), not yet running
\* embedded: has the coroutine obtained a query embedding (no statement of
\* _search_es_text or _search_vector calls an embedding provider); sent: the
\* value of the first argument of the backend call
NewTask(q) ==
    [state |-> "scheduled", query |-> q, embedded |-> FALSE,
     sent |-> [type |-> "none"], outcome |-> "none", hits |-> <<>>,
     exception |-> FALSE, value |-> <<>>, finished |-> 0]

\* the coroutine awaits search_text(query=query, ...) or
\* search_vector(s)(query=query, ...): the backend is handed the query string
AwaitBackend(t) == [t EXCEPT !.state = "awaiting", !.sent = PyStr(t.query)]

\* the place of a coroutine that finishes now in the order of completion
FinishedNext(t) == 1 + Cardinality({name \in DOMAIN t : t[name].state = "done"})

\* tasks.append(...) for every enabled route; gather schedules them
Dispatch(q) ==
    /\ ~RoutesRaise(request.routes)
    /\ tasks' = BuildTasks(request.routes)
    /\ task' = [name \in {tasks'[j] : j \in 1..Len(tasks')} |-> NewTask(q)]
    /\ pc' = "DISPATCHING"

\* a rewrite step that is taken whatever rewrite.enabled says
StartRewriteAlways ==
    /\ pc = "PARSED"
    /\ pc' = "REWRITING"
    /\ llm' = [llm EXCEPT !.state = "awaiting"]
    /\ UNCHANGED <<request, query_used, keywords, tasks, task, results_by_route,
                   fused_results, response, fuse_args, fuse_ret, calls, config_vars>>

\* rewrite enabled: await self.query_rewriter.rewrite(...), which awaits
\* llm_service.generate_text(prompt)
StartRewrite ==
    /\ pc = "PARSED"
    /\ request.rewrite.enabled
    /\ pc' = "REWRITING"
    /\ llm' = [llm EXCEPT !.state = "awaiting"]
    /\ UNCHANGED <<request, query_used, keywords, tasks, task, results_by_route,
                   fused_results, response, fuse_args, fuse_ret, calls, config_vars>>

\* the LLM call returns or raises, the rewriter returns; the routes are
\* dispatched
RewriteDone ==
    /\ pc = "REWRITING"
    /\ \E reply \in LlmReplies :
          LET rewrite_result == rewrite(QueryOf(request), request.rewrite.method, reply)
          IN  /\ llm' = [state |-> "replied", reply |-> reply]
              /\ query_used' = rewrite_result.query
              /\ keywords' = rewrite_result.keywords
              /\ Dispatch(rewrite_result.query)
    /\ UNCHANGED <<request, results_by_route, fused_results, response,
                   fuse_args, fuse_ret, calls, config_vars>>

\* rewrite disabled: the routes are dispatched at once
DispatchDirect ==
    /\ pc = "PARSED"
    /\ ~request.rewrite.enabled
    /\ Dispatch(query_used)
    /\ UNCHANGED <<request, query_used, keywords, llm, results_by_route,
                   fused_results, response, fuse_args, fuse_ret, calls, config_vars>>

\* vector_config.get("enabled", False) raises AttributeError outside every
\* try block: retrieve ends with the exception, after the rewrite if one was
\* asked for; the es_text coroutine object, if one was made, is never awaited
DispatchRaise ==
    /\ RoutesRaise(request.routes)
    /\ \/ /\ pc = "PARSED"
          /\ ~request.rewrite.enabled
          /\ UNCHANGED <<query_used, keywords, llm>>
       \/ /\ pc = "REWRITING"
          /\ \E reply \in LlmReplies :
                LET rewrite_result ==
                        rewrite(QueryOf(request), request.rewrite.method, reply)
                IN  /\ llm' = [state |-> "replied", reply |-> reply]
                    /\ query_used' = rewrite_result.query
                    /\ keywords' = rewrite_result.keywords
    /\ pc' = "RAISED"
    /\ response' = [status |-> "AttributeError", query_used |-> "", results |-> <<>>]
    /\ UNCHANGED <<request, tasks, task, results_by_route, fused_results,
                   fuse_args, fuse_ret, calls, config_vars>>

\* a route coroutine runs up to its backend call; an unknown vector backend
\* makes it return [] without calling anything
TaskStart(name) ==
    /\ pc = "DISPATCHING"
    /\ name \in DOMAIN task
    /\ task[name].state = "scheduled"
    /\ task' = [task EXCEPT ![name] =
                   IF CallsBackend(name) THEN AwaitBackend(@)
                   ELSE [@ EXCEPT !.state = "done", !.value = <<>>,
                                  !.finished = FinishedNext(task)]]
    /\ UNCHANGED <<request, pc, query_used, keywords, llm, tasks,
                   results_by_route, fused_results, response, fuse_args,
                   fuse_ret, calls, config_vars>>

\* the backend call returns hits and the coroutine returns them
BackendReturn(name) ==
    /\ pc = "DISPATCHING"
    /\ name \in DOMAIN task
    /\ task[name].state = "awaiting"
    /\ \E hits \in HitLists(name) :
          task' = [task EXCEPT ![name] =
                      [@ EXCEPT !.state = "done", !.outcome = "returned",
                                !.hits = hits,
                                !.value = RouteValue("returned", hits),
                                !.finished = FinishedNext(task)]]
    /\ UNCHANGED <<request, pc, query_used, keywords, llm, tasks,
                   results_by_route, fused_results, response, fuse_args,
                   fuse_ret, calls, config_vars>>

\* the backend call raises and the coroutine's except clause returns
BackendRaise(name) ==
    /\ pc = "DISPATCHING"
    /\ name \in DOMAIN task
    /\ task[name].state = "awaiting"
    /\ task' = [task EXCEPT ![name] =
                   [@ EXCEPT !.state = "done", !.outcome = "raised",
                             !.value = RouteValue("raised", <<>>),
                             !.finished = FinishedNext(task)]]
    /\ UNCHANGED <<request, pc, query_used, keywords, llm, tasks,
                   results_by_route, fused_results, response, fuse_args,
                   fuse_ret, calls, config_vars>>

\* gather returns (or there was nothing to gather); results are collected
Gather ==
    /\ pc = "DISPATCHING"
    /\ GatherDone(tasks, task)
    /\ results_by_route' = Collect(tasks, task, 1)
    /\ pc' = "FUSING"
    /\ UNCHANGED <<request, query_used, keywords, llm, tasks, task,
                   fused_results, response, fuse_args, fuse_ret, calls, config_vars>>

\* "Fusion of results": self.fusion_ranker.fuse is called for more than one
\* entry of results_by_route
Fuse ==
    /\ pc = "FUSING"
    /\ fused_results' = FuseOrPass(results_by_route, request.fusion)
    /\ IF Len(results_by_route) > 1
       THEN /\ fuse_args' = [by_route |-> results_by_route,
                             method   |-> request.fusion.method,
                             weights  |-> FusionWeights(request.fusion)]
            /\ fuse_ret' = [returned |-> TRUE, value |-> fused_results']
       ELSE UNCHANGED <<fuse_args, fuse_ret>>
    /\ pc' = "TRUNCATING"
    /\ UNCHANGED <<request, query_used, keywords, llm, tasks, task,
                   results_by_route, response, calls, config_vars>>

\* a return that reports an error when nothing was found
RespondErrorOnEmpty(q, kept) ==
    [status |-> IF kept = <<>> THEN "error" ELSE "ok", query_used |-> q,
     results |-> [n \in 1..Len(kept) |-> FormatResult(kept[n])]]

\* return {"query_used": query_used, "results": formatted_results}
Respond(q, kept) ==
    [status |-> "ok", query_used |-> q,
     results |-> [n \in 1..Len(kept) |-> FormatResult(kept[n])]]

\* "Limit to top_k", format, return
Truncate ==
    /\ pc = "TRUNCATING"
    /\ response' = Respond(query_used, Take(fused_results, request.top_k))
    /\ pc' = "DONE"
    /\ UNCHANGED <<request, query_used, keywords, llm, tasks, task,
                   results_by_route, fused_results, fuse_args, fuse_ret, calls, config_vars>>

RouteNames == {"es_text"} \cup {"vector_" \o b : b \in Backends}

Next ==
    \/ StartRewrite
    \/ RewriteDone
    \/ DispatchDirect
    \/ \E name \in RouteNames : TaskStart(name)
    \/ \E name \in RouteNames : BackendReturn(name)
    \/ \E name \in RouteNames : BackendRaise(name)
    \/ Gather
    \/ Fuse
    \/ Truncate

Spec == Init /\ [][Next]_vars

\* ------------------------------------------------------------------------
\* The POST /retrieve handler (api/retrieve.py) in front of the service: it
\* validates the request, awaits retriever_service.retrieve(request) and
\* returns its result unchanged.
\* ------------------------------------------------------------------------
\* a validation that only asks for the key
ApiQueryGivenKeyOnly(req) == "query" \in DOMAIN req

\* if not request.get("query"): raise HTTPException(status_code=400, ...)
ApiQueryGiven(req) == "query" \in DOMAIN req /\ req["query"] # ""

ApiFusion ==
    [method |-> "weighted_sum", has_weights |-> TRUE,
     weights |-> ("es_text" :> 1 @@ "vector_milvus" :> 1)]

\* rewrite configs of a request body: the method can be any string
ApiRewriteConfigs == RewriteConfigs \cup {[enabled |-> TRUE, method |-> "hyde"]}

\* request bodies with an ordinary query, an empty query and no query
ApiRequests ==
    {[query |-> q, top_k |-> MaxTopK, routes |-> r, rewrite |-> w,
      fusion |-> ApiFusion] :
        q \in {"q", ""}, r \in RouteConfigs, w \in ApiRewriteConfigs}
    \cup
    {[top_k |-> MaxTopK, routes |-> r, rewrite |-> w, fusion |-> ApiFusion] :
        r \in RouteConfigs, w \in ApiRewriteConfigs}

InitApi ==
    /\ request \in ApiRequests
    /\ pc = "RECEIVED"
    /\ query_used = ""
    /\ keywords = <<>>
    /\ llm = NoLlmCall
    /\ tasks = <<>>
    /\ task = <<>>
    /\ results_by_route = <<>>
    /\ fused_results = <<>>
    /\ response = NoResponse
    /\ NoFuseCall
    /\ calls = NoCalls
    /\ IdleConfig

\* the handler raises HTTPException 400; the service is not called
ApiReject ==
    /\ pc = "RECEIVED"
    /\ ~ApiQueryGiven(request)
    /\ pc' = "REJECTED"
    /\ response' = [status |-> "400", query_used |-> "", results |-> <<>>]
    /\ UNCHANGED <<request, query_used, keywords, llm, tasks, task,
                   results_by_route, fused_results, fuse_args, fuse_ret, calls, config_vars>>

\* the handler calls retriever_service.retrieve(request), which parses it
ApiAccept ==
    /\ pc = "RECEIVED"
    /\ ApiQueryGiven(request)
    /\ pc' = "PARSED"
    /\ query_used' = QueryOf(request)
    /\ UNCHANGED <<request, keywords, llm, tasks, task, results_by_route,
                   fused_results, response, fuse_args, fuse_ret, calls, config_vars>>

NextApi ==
    \/ ApiReject
    \/ ApiAccept
    \/ Next

SpecApi == InitApi /\ [][NextApi]_vars

\* ------------------------------------------------------------------------
\* retrieve called with any routes mapping: each of the keys es_text and
\* vector is absent, or holds False, True, {}, or a mapping with enabled
\* and/or backend.
\* ------------------------------------------------------------------------
Absent == [type |-> "absent"]

\* a dict literal from an entry per key, a key left out when its value is Absent
DictOf(es_text, vector) ==
    [key \in {k \in {"es_text", "vector"} :
                 (IF k = "es_text" THEN es_text ELSE vector) # Absent} |->
        IF key = "es_text" THEN es_text ELSE vector]

EsTextEntries ==
    {Absent, PyBool(FALSE), PyBool(TRUE), PyDict(<<>>),
     PyDict("enabled" :> PyBool(FALSE))}

VectorEntries ==
    {Absent, PyBool(FALSE), PyDict(<<>>),
     PyDict("enabled" :> PyBool(FALSE) @@ "backend" :> PyStr("milvus")),
     PyDict("enabled" :> PyBool(TRUE) @@ "backend" :> PyStr("milvus")),
     PyDict("enabled" :> PyBool(TRUE))}

AnyRoutes == {DictOf(e, v) : e \in EsTextEntries, v \in VectorEntries}

RoutesRequests ==
    {[query |-> "q", top_k |-> MaxTopK, routes |-> r, rewrite |-> w,
      fusion |-> ApiFusion] :
        r \in AnyRoutes,
        w \in {[enabled |-> FALSE, method |-> "keywords"],
               [enabled |-> TRUE, method |-> "keywords"]}}

InitRoutes ==
    /\ request \in RoutesRequests
    /\ pc = "PARSED"
    /\ query_used = QueryOf(request)
    /\ keywords = <<>>
    /\ llm = NoLlmCall
    /\ tasks = <<>>
    /\ task = <<>>
    /\ results_by_route = <<>>
    /\ fused_results = <<>>
    /\ response = NoResponse
    /\ NoFuseCall
    /\ calls = NoCalls
    /\ IdleConfig

NextRoutes ==
    \/ DispatchRaise
    \/ Next

SpecRoutes == InitRoutes /\ [][NextRoutes]_vars

\* ------------------------------------------------------------------------
\* retrieve on top of the indexers of this repository (indexing/): the
\* es_text route gets what ElasticsearchIndexer.search_text builds from the
\* search response; search_vector and search_vectors take the parameter
\* vector and are called with the keyword query, so the call of a vector
\* route raises TypeError.
\* ------------------------------------------------------------------------
\* a hit of the search response: {"_score": score, "_source": document}
EsHit(chunk_id, score) ==
    "_score" :> score
    @@ "_source" :> [chunk_id |-> chunk_id, content |-> "es_text"]

\* response["hits"]["hits"]: up to MaxHits documents, highest _score first
EsResponses ==
    {[i \in 1..Len(ids) |-> EsHit(ids[i], HitScore("es_text", i))] :
     ids \in {s \in UNION {[1..n -> ChunkIds] : n \in 0..MaxHits} :
                \A a, b \in 1..Len(s) : a # b => s[a] # s[b]}}

\* search_text: source = hit["_source"]; source["_score"] = hit["_score"]
search_text(hits) ==
    [i \in 1..Len(hits) |-> ("_score" :> hits[i]["_score"]) @@ hits[i]["_source"]]

IndexerRequests ==
    {[query |-> "q", top_k |-> k, routes |-> Routes(TRUE, v, b),
      rewrite |-> [enabled |-> FALSE, method |-> "keywords"], fusion |-> f] :
        k \in 1..MaxTopK, v \in BOOLEAN, b \in {"milvus", "es"},
        f \in FusionConfigs}

InitIndexers ==
    /\ request \in IndexerRequests
    /\ pc = "PARSED"
    /\ query_used = QueryOf(request)
    /\ keywords = <<>>
    /\ llm = NoLlmCall
    /\ tasks = <<>>
    /\ task = <<>>
    /\ results_by_route = <<>>
    /\ fused_results = <<>>
    /\ response = NoResponse
    /\ NoFuseCall
    /\ calls = NoCalls
    /\ IdleConfig

\* es_indexer.search_text returns the records it built from the response
SearchTextReturn ==
    /\ pc = "DISPATCHING"
    /\ "es_text" \in DOMAIN task
    /\ task["es_text"].state = "awaiting"
    /\ \E hits \in EsResponses :
          task' = [task EXCEPT !["es_text"] =
                      [@ EXCEPT !.state = "done", !.outcome = "returned",
                                !.hits = search_text(hits),
                                !.value = RouteValue("returned", search_text(hits)),
                                !.finished = FinishedNext(task)]]
    /\ UNCHANGED <<request, pc, query_used, keywords, llm, tasks,
                   results_by_route, fused_results, response, fuse_args,
                   fuse_ret, calls, config_vars>>

NextIndexers ==
    \/ DispatchDirect
    \/ \E name \in RouteNames : TaskStart(name)
    \/ SearchTextReturn
    \/ \E name \in RouteNames : BackendRaise(name)
    \/ Gather
    \/ Fuse
    \/ Truncate

SpecIndexers == InitIndexers /\ [][NextIndexers]_vars

\* ------------------------------------------------------------------------
\* Direct calls of FusionRanker.fuse: the arguments are drawn by Init, CallFuse
\* applies fuse to them.  Route result lists obey the data model: chunk ids
\* are non-empty and unique within one route's list.
\* ------------------------------------------------------------------------
NoKey == "<absent>"

\* score scales of the two routes, in ScoreUnit: BM25-like and cosine-like
ScoreScale(route, fine) ==
    IF route = "es_text"
    THEN (IF fine THEN {100, 200, 250} ELSE {100, 200})
    ELSE (IF fine THEN {18, 19} ELSE {18})

\* payload: every candidate of a route carries the route's own content, or
\* (when varied) may lack the key
ContentsOf(route, varied) == IF varied THEN {NoKey, "content of " \o route} ELSE {NoKey}

Candidate(chunk_id, score, content) ==
    IF content = NoKey THEN [chunk_id |-> chunk_id, score |-> score]
    ELSE [chunk_id |-> chunk_id, score |-> score, content |-> content]

\* all result lists of exactly n candidates with distinct chunk ids
ListsOfLen(n, scores, contents) ==
    {[i \in 1..n |-> Candidate(ids[i], sc[i], co[i])] :
        ids \in {f \in [1..n -> ChunkIds] : \A a, b \in 1..n : a # b => f[a] # f[b]},
        sc \in [1..n -> scores],
        co \in [1..n -> contents]}

\* {"es_text": ..., "vector_milvus": ...} with at most MaxRecords candidates
TwoRoutes(fine, varied) ==
    UNION {
        {<<[route |-> "es_text", results |-> a],
           [route |-> "vector_milvus", results |-> b]>> :
            a \in ListsOfLen(n[1], ScoreScale("es_text", fine),
                             ContentsOf("es_text", varied)),
            b \in ListsOfLen(n[2], ScoreScale("vector_milvus", fine),
                             ContentsOf("vector_milvus", varied))} :
        n \in {m \in (0..MaxRecords) \X (0..MaxRecords) : m[1] + m[2] <= MaxRecords}}

\* {"es_text": ...} alone
OneRoute(fine, varied) ==
    UNION {
        {<<[route |-> "es_text", results |-> a]>> :
            a \in ListsOfLen(n, ScoreScale("es_text", fine),
                             ContentsOf("es_text", varied))} :
        n \in 0..MaxRecords}

Given(map) == [none |-> FALSE, map |-> map]

NotGiven == [none |-> TRUE]

\* weights for the score checks: equal, unequal, one route without a weight,
\* and two mappings that sum to 0 (the second is what retrieve passes when the
\* request names no weights)
ScoreWeights ==
    {Given("es_text" :> 1 @@ "vector_milvus" :> 1),
     Given("es_text" :> 3 @@ "vector_milvus" :> 1),
     Given("es_text" :> 1),
     Given("es_text" :> 1 @@ "vector_milvus" :> -1),
     Given(<<>>)}

\* any weights over the two routes and a route that takes no part: absent, or
\* one of -0.5, 0, 0.5
WeightKeys == {"es_text", "vector_milvus", "vector_es"}

AnyWeights ==
    {NotGiven} \cup
    {Given([key \in keys |-> w[key]]) :
        w \in [WeightKeys -> {-1, 0, 1}], keys \in SUBSET WeightKeys}

IdleRetrieve ==
    /\ request = [query |-> "", top_k |-> 1,
                  routes |-> Routes(FALSE, FALSE, "milvus"),
                  rewrite |-> [enabled |-> FALSE, method |-> "keywords"],
                  fusion |-> [method |-> "weighted_sum", has_weights |-> FALSE,
                              weights |-> <<>>]]
    /\ pc = "IDLE"
    /\ query_used = ""
    /\ keywords = <<>>
    /\ llm = NoLlmCall
    /\ tasks = <<>>
    /\ task = <<>>
    /\ results_by_route = <<>>
    /\ fused_results = <<>>
    /\ response = NoResponse

FuseArgs(by_routes, methods, weights) ==
    {[by_route |-> r, method |-> m, weights |-> w] :
        r \in by_routes, m \in methods, w \in weights}

\* scores vary finely; payload fixed
InitScores ==
    /\ IdleRetrieve
    /\ calls = NoCalls
    /\ IdleConfig
    /\ fuse_args \in FuseArgs(TwoRoutes(TRUE, FALSE), {"weighted_sum"}, ScoreWeights)
                     \cup FuseArgs(TwoRoutes(TRUE, FALSE), {"rrf"}, {NotGiven})
    /\ fuse_ret = [returned |-> FALSE, value |-> <<>>]

\* payload varies; both methods
InitMerge ==
    /\ IdleRetrieve
    /\ calls = NoCalls
    /\ IdleConfig
    /\ fuse_args \in FuseArgs(TwoRoutes(FALSE, TRUE), {"weighted_sum", "rrf"},
                              {Given("es_text" :> 1 @@ "vector_milvus" :> 1)})
    /\ fuse_ret = [returned |-> FALSE, value |-> <<>>]

\* weights and method vary; one or two routes
InitWeights ==
    /\ IdleRetrieve
    /\ calls = NoCalls
    /\ IdleConfig
    /\ fuse_args \in FuseArgs(TwoRoutes(FALSE, FALSE) \cup OneRoute(FALSE, FALSE),
                              {"weighted_sum", "rrf", "borda"}, AnyWeights)
    /\ fuse_ret = [returned |-> FALSE, value |-> <<>>]

\* result = ranker.fuse(results_by_route, method, weights)
CallFuse ==
    /\ ~fuse_ret.returned
    /\ fuse_ret' = [returned |-> TRUE,
                    value |-> fuse(fuse_args.by_route, fuse_args.method,
                                   fuse_args.weights)]
    /\ UNCHANGED <<retrieve_vars, fuse_args, calls, config_vars>>

NextFuse == CallFuse

SpecScores == InitScores /\ [][NextFuse]_vars

SpecMerge == InitMerge /\ [][NextFuse]_vars

SpecWeights == InitWeights /\ [][NextFuse]_vars

\* ------------------------------------------------------------------------
\* Two retrieve calls running concurrently on the one RetrieverService of
\* api/retrieve.py.  The service object holds its collaborators only, set in
\* __init__ and never assigned again; everything retrieve works on is a local
\* variable of the call, so each call has a frame of its own in calls.
\* ------------------------------------------------------------------------
CallIds == {1, 2}

\* the locals of a call right after "Parse request parameters"
NewFrame(req) ==
    [request |-> req, pc |-> "PARSED", query_used |-> QueryOf(req),
     keywords |-> <<>>, llm |-> NoLlmCall, tasks |-> <<>>, task |-> <<>>,
     results_by_route |-> <<>>, fused_results |-> <<>>, response |-> NoResponse]

\* the two requests differ in their query, in their fusion method and in
\* whether they ask for an llm rewrite
CallRequests(c) ==
    {[query |-> IF c = 1 THEN "qa" ELSE "qb", top_k |-> MaxTopK - 1,
      routes |-> Routes(TRUE, TRUE, "milvus"),
      rewrite |-> [enabled |-> (c = 1), method |-> "llm"],
      fusion |-> [method |-> IF c = 1 THEN "weighted_sum" ELSE "rrf",
                  has_weights |-> TRUE,
                  weights |-> ("es_text" :> 1 @@ "vector_milvus" :> 1)]]}

\* what the LLM answers to the rewrite of call c
CallReplies(c) ==
    {[kind |-> "raise"],
     Json(PyDict("query" :> PyStr(IF c = 1 THEN "qa2" ELSE "qb2")
                 @@ "keywords" :> PyList(<<"k1">>)))}

\* the chunks the query of call c can match
CallChunks(c) == IF c = 1 THEN {"x1", "x2"} ELSE {"x2", "x3"}

\* what a search call made by call c can hand back
CallHitLists(c, name) ==
    {hits \in HitLists(name) : IdsOf(hits) \subseteq CallChunks(c)}

InitTwo ==
    /\ IdleRetrieve
    /\ NoFuseCall
    /\ IdleConfig
    /\ calls \in {[c \in CallIds |-> NewFrame(IF c = 1 THEN r1 ELSE r2)] :
                     r1 \in CallRequests(1), r2 \in CallRequests(2)}

\* a step of call c changes its own frame and nothing else
SetCall(c, frame) ==
    /\ calls' = [calls EXCEPT ![c] = frame]
    /\ UNCHANGED <<retrieve_vars, fuse_args, fuse_ret, config_vars>>

\* tasks.append(...) for every enabled route, each with query q
FrameDispatch(f, q) ==
    LET names == BuildTasks(f.request.routes)
    IN  [f EXCEPT !.tasks = names,
                  !.task = [name \in {names[j] : j \in 1..Len(names)} |-> NewTask(q)],
                  !.pc = "DISPATCHING"]

\* a results_by_route kept on the service object: a call sees what the call
\* that collected before it left there
ResultsOnService(cs, c) ==
    IF \E d \in DOMAIN cs : d # c /\ cs[d].pc \in {"FUSING", "TRUNCATING", "DONE"}
    THEN cs[CHOOSE d \in DOMAIN cs :
                d # c /\ cs[d].pc \in {"FUSING", "TRUNCATING", "DONE"}].results_by_route
    ELSE cs[c].results_by_route

\* results_by_route = {} is a local of retrieve: a call reads its own
ResultsSeenBy(cs, c) == cs[c].results_by_route

CallStartRewrite(c) ==
    LET f == calls[c]
    IN  /\ f.pc = "PARSED"
        /\ f.request.rewrite.enabled
        /\ SetCall(c, [f EXCEPT !.pc = "REWRITING", !.llm.state = "awaiting"])

CallRewriteDone(c) ==
    LET f == calls[c]
    IN  /\ f.pc = "REWRITING"
        /\ \E reply \in CallReplies(c) :
              LET rewrite_result ==
                      rewrite(QueryOf(f.request), f.request.rewrite.method, reply)
              IN  SetCall(c, FrameDispatch(
                                 [f EXCEPT !.llm = [state |-> "replied", reply |-> reply],
                                           !.query_used = rewrite_result.query,
                                           !.keywords = rewrite_result.keywords],
                                 rewrite_result.query))

CallDispatchDirect(c) ==
    LET f == calls[c]
    IN  /\ f.pc = "PARSED"
        /\ ~f.request.rewrite.enabled
        /\ SetCall(c, FrameDispatch(f, f.query_used))

CallTaskStart(c, name) ==
    LET f == calls[c]
    IN  /\ f.pc = "DISPATCHING"
        /\ name \in DOMAIN f.task
        /\ f.task[name].state = "scheduled"
        /\ SetCall(c, [f EXCEPT !.task[name] =
                          IF CallsBackend(name) THEN AwaitBackend(@)
                          ELSE [@ EXCEPT !.state = "done", !.value = <<>>,
                                         !.finished = FinishedNext(f.task)]])

CallBackendReturn(c, name) ==
    LET f == calls[c]
    IN  /\ f.pc = "DISPATCHING"
        /\ name \in DOMAIN f.task
        /\ f.task[name].state = "awaiting"
        /\ \E hits \in CallHitLists(c, name) :
              SetCall(c, [f EXCEPT !.task[name] =
                             [@ EXCEPT !.state = "done", !.outcome = "returned",
                                       !.hits = hits,
                                       !.value = RouteValue("returned", hits),
                                       !.finished = FinishedNext(f.task)]])

CallBackendRaise(c, name) ==
    LET f == calls[c]
    IN  /\ f.pc = "DISPATCHING"
        /\ name \in DOMAIN f.task
        /\ f.task[name].state = "awaiting"
        /\ SetCall(c, [f EXCEPT !.task[name] =
                          [@ EXCEPT !.state = "done", !.outcome = "raised",
                                    !.value = RouteValue("raised", <<>>),
                                    !.finished = FinishedNext(f.task)]])

CallGather(c) ==
    LET f == calls[c]
    IN  /\ f.pc = "DISPATCHING"
        /\ GatherDone(f.tasks, f.task)
        /\ SetCall(c, [f EXCEPT !.results_by_route = Collect(f.tasks, f.task, 1),
                                !.pc = "FUSING"])

CallFusion(c) ==
    LET f == calls[c]
    IN  /\ f.pc = "FUSING"
        /\ SetCall(c, [f EXCEPT !.fused_results =
                                    FuseOrPass(ResultsSeenBy(calls, c), f.request.fusion),
                                !.pc = "TRUNCATING"])

CallTruncate(c) ==
    LET f == calls[c]
    IN  /\ f.pc = "TRUNCATING"
        /\ SetCall(c, [f EXCEPT !.response =
                                    Respond(f.query_used,
                                            Take(f.fused_results, f.request.top_k)),
                                !.pc = "DONE"])

NextTwo ==
    \E c \in CallIds :
        \/ CallStartRewrite(c)
        \/ CallRewriteDone(c)
        \/ CallDispatchDirect(c)
        \/ \E name \in RouteNames : CallTaskStart(c, name)
        \/ \E name \in RouteNames : CallBackendReturn(c, name)
        \/ \E name \in RouteNames : CallBackendRaise(c, name)
        \/ CallGather(c)
        \/ CallFusion(c)
        \/ CallTruncate(c)

SpecTwo == InitTwo /\ [][NextTwo]_vars

\* ------------------------------------------------------------------------
\* load_config (rag_testing_system/config/loader.py): a ConfigLoader merges
\* the configuration file, then the RAG_ environment variables, then the
\* command-line arguments into _config_dict, and build() validates the
\* result into a RAGSystemConfig whose fields default as models.py says.
\* Nested configuration dicts are tagged Python values; the built
\* configuration is read by key path.
\* ------------------------------------------------------------------------
PyInt(n) == [type |-> "int", n |-> n]

PyNone == [type |-> "none"]

\* a merge in which the update's value replaces the configuration's value at
\* every top-level key, mappings included
DeepMergeReplace(base, update) == update @@ base

\* _deep_merge(base, update): a key held as a mapping on both sides is
\* merged recursively, any other key of update replaces base's entry
RECURSIVE DeepMerge(_, _)
DeepMerge(base, update) ==
    [key \in DOMAIN base \cup DOMAIN update |->
        IF key \notin DOMAIN update THEN base[key]
        ELSE IF /\ key \in DOMAIN base
                /\ base[key].type = "dict"
                /\ update[key].type = "dict"
             THEN PyDict(DeepMerge(base[key].fields, update[key].fields))
             ELSE update[key]]

\* a merge in which the configuration's earlier value wins
MergeConfigKeepEarlier(config_dict, new_config) == DeepMerge(new_config, config_dict)

\* _merge_config(new_config)
MergeConfig(config_dict, new_config) == DeepMerge(config_dict, new_config)

\* current = nested; for part in parts[:-1]: current = current.setdefault
\* (part, {}); current[parts[-1]] = value
RECURSIVE SetPath(_, _, _)
SetPath(current, parts, value) ==
    IF Len(parts) = 1 THEN (parts[1] :> value) @@ current
    ELSE LET child == IF parts[1] \in DOMAIN current
                      THEN current[parts[1]].fields
                      ELSE <<>>
         IN  (parts[1] :> PyDict(SetPath(child, Tail(parts), value))) @@ current

\* str.lower() on the names the environment holds
Lower(part) ==
    IF part = "PROCESSING" THEN "processing"
    ELSE IF part = "CHUNK_SIZE" THEN "chunk_size"
    ELSE IF part = "CHUNK_OVERLAP" THEN "chunk_overlap"
    ELSE IF part = "DATABASE" THEN "database"
    ELSE IF part = "MILVUS" THEN "milvus"
    ELSE IF part = "HOST" THEN "host"
    ELSE IF part = "PORT" THEN "port"
    ELSE part

\* the texts json.loads reads as a number
JsonNumbers == ("300" :> 300) @@ ("20" :> 20) @@ ("2002" :> 2002) @@ ("999" :> 999)

\* json.loads(value), the text itself when it is not JSON
EnvValue(text) ==
    IF text \in DOMAIN JsonNumbers THEN PyInt(JsonNumbers[text]) ELSE PyStr(text)

\* the loop of load_from_env over os.environ: names without the prefix are
\* skipped, the rest is lowercased, split on "__" and nested
RECURSIVE EnvConfig(_, _, _)
EnvConfig(environ, prefix, env_config) ==
    IF environ = {} THEN env_config
    ELSE LET var == CHOOSE v \in environ : TRUE
             parts == [j \in 1..Len(var.parts) |-> Lower(var.parts[j])]
         IN  EnvConfig(environ \ {var}, prefix,
                       IF var.prefix # prefix THEN env_config
                       ELSE SetPath(env_config, parts, EnvValue(var.value)))

\* arg_mapping of _map_args_to_config
ArgMapping ==
    ("milvus_host" :> <<"database", "milvus", "host">>)
    @@ ("chunk_size" :> <<"processing", "chunk_size">>)
    @@ ("chunk_overlap" :> <<"processing", "chunk_overlap">>)

\* _map_args_to_config(args_dict): "config" is skipped, a mapped name is
\* placed at its path
RECURSIVE MapArgsToConfig(_, _)
MapArgsToConfig(args_dict, nested) ==
    IF DOMAIN args_dict = {} THEN nested
    ELSE LET arg_name == CHOOSE k \in DOMAIN args_dict : TRUE
             others == [k \in DOMAIN args_dict \ {arg_name} |-> args_dict[k]]
         IN  MapArgsToConfig(others,
                             IF arg_name = "config" THEN nested
                             ELSE SetPath(nested, ArgMapping[arg_name],
                                          args_dict[arg_name]))

\* {k: v for k, v in vars(args).items() if v is not None}
ArgsDict(args) ==
    [k \in {name \in DOMAIN args : args[name] # PyNone} |-> args[k]]

\* the value a nested dict holds at a key path, Absent when a part is missing
\* or an enclosing value is not a mapping
RECURSIVE ValueAt(_, _)
ValueAt(fields, path) ==
    IF path[1] \notin DOMAIN fields THEN Absent
    ELSE IF Len(path) = 1 THEN fields[path[1]]
    ELSE IF fields[path[1]].type # "dict" THEN Absent
    ELSE ValueAt(fields[path[1]].fields, Tail(path))

\* the fields of RAGSystemConfig the inputs can set, with their defaults
FieldDefaults ==
    (<<"processing", "chunk_size">> :> PyInt(512))
    @@ (<<"processing", "chunk_overlap">> :> PyInt(50))
    @@ (<<"database", "milvus", "host">> :> PyStr("localhost"))
    @@ (<<"database", "milvus", "port">> :> PyInt(19530))

\* the keys that hold a nested model
SectionPaths == {<<"processing">>, <<"database">>, <<"database", "milvus">>}

\* validation of RAGSystemConfig(**config_dict): a nested model takes a
\* mapping and nothing else
Validates(config_dict) ==
    \A path \in SectionPaths :
        ValueAt(config_dict, path) = Absent \/ ValueAt(config_dict, path).type = "dict"

\* RAGSystemConfig(**config_dict): a field holds the value given for it, its
\* default when none is given
BuildConfig(config_dict) ==
    [path \in DOMAIN FieldDefaults |->
        IF ValueAt(config_dict, path) = Absent THEN FieldDefaults[path]
        ELSE ValueAt(config_dict, path)]

\* ----- the sources -----
\* {"processing": {...}, "database": {"milvus": {...}}} with the given
\* leaves, a section without a leaf left out
ConfigOf(leaves) ==
    LET processing == [k \in {"chunk_size", "chunk_overlap"} \cap DOMAIN leaves |-> leaves[k]]
        milvus == [k \in {"host", "port"} \cap DOMAIN leaves |-> leaves[k]]
    IN  (IF DOMAIN processing = {} THEN <<>> ELSE "processing" :> PyDict(processing))
        @@ (IF DOMAIN milvus = {} THEN <<>>
            ELSE "database" :> PyDict("milvus" :> PyDict(milvus)))

FileLeaves ==
    ("chunk_size" :> PyInt(256)) @@ ("chunk_overlap" :> PyInt(10))
    @@ ("host" :> PyStr("milvus-file")) @@ ("port" :> PyInt(1001))

\* what yaml.safe_load can read from the configuration file
FileConfigs ==
    {ConfigOf([k \in keys |-> FileLeaves[k]]) : keys \in SUBSET DOMAIN FileLeaves}

EnvVar(prefix, parts, value) == [prefix |-> prefix, parts |-> parts, value |-> value]

\* RAG_ variables that set one field each
FieldVars ==
    {EnvVar("RAG_", <<"PROCESSING", "CHUNK_SIZE">>, "300"),
     EnvVar("RAG_", <<"PROCESSING", "CHUNK_OVERLAP">>, "20"),
     EnvVar("RAG_", <<"DATABASE", "MILVUS", "HOST">>, "milvus-env"),
     EnvVar("RAG_", <<"DATABASE", "MILVUS", "PORT">>, "2002")}

\* RAG_DATABASE__MILVUS=remote: a text where the configuration has a section
MilvusVar == EnvVar("RAG_", <<"DATABASE", "MILVUS">>, "remote")

\* a variable of another program
OtherVar == EnvVar("APP_", <<"PROCESSING", "CHUNK_SIZE">>, "999")

\* os.environ: no variable names a key inside another variable's key
Environs ==
    {{OtherVar} \cup fields : fields \in SUBSET FieldVars}
    \cup {{OtherVar, MilvusVar} \cup fields :
             fields \in SUBSET {v \in FieldVars : v.parts[1] = "PROCESSING"}}

ArgValues ==
    ("chunk_size" :> PyInt(1024)) @@ ("chunk_overlap" :> PyInt(30))
    @@ ("milvus_host" :> PyStr("milvus-cli"))

\* what the parser of _create_argument_parser returns: an option not given
\* is None
Namespaces ==
    {("config" :> PyStr("config.yaml"))
     @@ [k \in DOMAIN ArgValues |-> IF k \in given THEN ArgValues[k] ELSE PyNone] :
        given \in SUBSET DOMAIN ArgValues}

\* load_config(config_file, load_env, load_args, args) and what it can read
LoadCalls ==
    {[given |-> TRUE, config_file |-> file, file_config |-> content,
      load_env |-> le, environ |-> environ, load_args |-> la, args |-> args] :
        file \in BOOLEAN, content \in FileConfigs, le \in BOOLEAN,
        environ \in Environs, la \in BOOLEAN, args \in Namespaces}

\* without a configuration file there is no content to tell apart
LoadCallsRead == {s \in LoadCalls : ~s.config_file => s.file_config = <<>>}

\* loader = ConfigLoader()
NewLoader ==
    [pc |-> "NEW", config_dict |-> <<>>, merged |-> PyNone, config |-> PyNone]

InitLoader ==
    /\ sources \in LoadCallsRead
    /\ loader = NewLoader
    /\ versions = <<>>
    /\ version_call = [op |-> "none"]
    /\ IdleRetrieve
    /\ NoFuseCall
    /\ calls = NoCalls

\* the loader after one step of load_config: the source is skipped, or its
\* dict is merged
Loaded(to, load, new_config) ==
    IF load
    THEN [loader EXCEPT !.pc = to,
                        !.config_dict = MergeConfig(@, new_config),
                        !.merged = PyDict(new_config)]
    ELSE [loader EXCEPT !.pc = to, !.merged = PyNone]

\* if config_file: loader.load_from_file(config_file)
LoadFromFile ==
    /\ loader.pc = "NEW"
    /\ loader' = Loaded("FILE_DONE", sources.config_file, sources.file_config)
    /\ UNCHANGED <<retrieve_vars, fuse_args, fuse_ret, calls, sources, versions,
                   version_call>>

\* if load_env: loader.load_from_env()
LoadFromEnv ==
    /\ loader.pc = "FILE_DONE"
    /\ loader' = Loaded("ENV_DONE", sources.load_env,
                        EnvConfig(sources.environ, "RAG_", <<>>))
    /\ UNCHANGED <<retrieve_vars, fuse_args, fuse_ret, calls, sources, versions,
                   version_call>>

\* if load_args: loader.load_from_args(args)
LoadFromArgs ==
    /\ loader.pc = "ENV_DONE"
    /\ loader' = Loaded("ARGS_DONE", sources.load_args,
                        MapArgsToConfig(ArgsDict(sources.args), <<>>))
    /\ UNCHANGED <<retrieve_vars, fuse_args, fuse_ret, calls, sources, versions,
                   version_call>>

\* return loader.build()
Build ==
    /\ loader.pc = "ARGS_DONE"
    /\ loader' = IF Validates(loader.config_dict)
                 THEN [loader EXCEPT !.pc = "BUILT", !.merged = PyNone,
                                     !.config = BuildConfig(loader.config_dict)]
                 ELSE [loader EXCEPT !.pc = "ConfigurationError", !.merged = PyNone]
    /\ UNCHANGED <<retrieve_vars, fuse_args, fuse_ret, calls, sources, versions,
                   version_call>>

NextLoader == LoadFromFile \/ LoadFromEnv \/ LoadFromArgs \/ Build

SpecLoader == InitLoader /\ [][NextLoader]_vars

\* ------------------------------------------------------------------------
\* ConfigVersionManager (deep_parser/config/versioned_config.py): calls made
\* one after another on one manager, that is on one AsyncSession.  versions
\* is the config_versions table as the session sees it; the session keeps
\* its loaded rows in step with the bulk UPDATE of activate_config
\* (synchronize_session of an ORM-enabled update), so one table stands for
\* both.
\* ------------------------------------------------------------------------
\* the ids uuid4 can hand out, and one id that is never saved
VersionIds == {"v1", "v2", "v3"}

AskedIds == VersionIds \cup {"v0"}

\* the configurations handed to save_config
SavedConfigs ==
    {ConfigOf("chunk_size" :> PyInt(256)), ConfigOf("chunk_size" :> PyInt(512))}

\* json.dumps(config_data, ensure_ascii=False)
DumpsConfigData(config_data) ==
    IF config_data = ConfigOf("chunk_size" :> PyInt(256))
    THEN "{\"processing\": {\"chunk_size\": 256}}"
    ELSE "{\"processing\": {\"chunk_size\": 512}}"

\* json.loads(config_version.config_data)
LoadsConfigData(text) ==
    IF text = "{\"processing\": {\"chunk_size\": 256}}"
    THEN ConfigOf("chunk_size" :> PyInt(256))
    ELSE ConfigOf("chunk_size" :> PyInt(512))

\* the rows with is_active == True
ActiveVersions(table) == {id \in DOMAIN table : table[id].is_active}

\* an activation that deactivates no row
DeactivatedNone(table) == table

\* update(ConfigVersionModel).where(is_active == True).values(is_active=False)
Deactivated(table) ==
    [id \in DOMAIN table |-> [table[id] EXCEPT !.is_active = FALSE]]

InitVersions ==
    /\ versions = <<>>
    /\ version_call = [op |-> "none"]
    /\ sources = [given |-> FALSE]
    /\ loader = [pc |-> "IDLE"]
    /\ IdleRetrieve
    /\ NoFuseCall
    /\ calls = NoCalls

\* save_config(config_data): a row with a fresh id, is_active = False
SaveConfig(config_data) ==
    \E config_version_id \in VersionIds \ DOMAIN versions :
        /\ versions' = (config_version_id :>
                            [config_data |-> DumpsConfigData(config_data),
                             is_active |-> FALSE]) @@ versions
        /\ version_call' = [op |-> "save_config",
                            version_id |-> config_version_id,
                            returned |-> PyStr(config_version_id)]
        /\ UNCHANGED <<retrieve_vars, fuse_args, fuse_ret, calls, sources, loader>>

\* activate_config(version_id): False when the row is not found; otherwise
\* the active rows are deactivated, the row is activated and flushed
ActivateConfig(version_id) ==
    /\ versions' = IF version_id \notin DOMAIN versions THEN versions
                   ELSE [Deactivated(versions) EXCEPT ![version_id].is_active = TRUE]
    /\ version_call' = [op |-> "activate_config",
                        version_id |-> version_id,
                        returned |-> PyBool(version_id \in DOMAIN versions)]
    /\ UNCHANGED <<retrieve_vars, fuse_args, fuse_ret, calls, sources, loader>>

\* get_active_config(): scalar_one_or_none over the active rows
GetActiveConfig ==
    /\ version_call' =
           [op |-> "get_active_config",
            version_id |-> "",
            returned |->
                IF ActiveVersions(versions) = {} THEN PyNone
                ELSE IF Cardinality(ActiveVersions(versions)) > 1
                     THEN PyStr("MultipleResultsFound")
                     ELSE PyDict(LoadsConfigData(
                              versions[CHOOSE id \in ActiveVersions(versions) : TRUE]
                                  .config_data))]
    /\ UNCHANGED <<retrieve_vars, fuse_args, fuse_ret, calls, sources, loader,
                   versions>>

NextVersions ==
    \/ \E config_data \in SavedConfigs : SaveConfig(config_data)
    \/ \E version_id \in AskedIds : ActivateConfig(version_id)
    \/ GetActiveConfig

SpecVersions == InitVersions /\ [][NextVersions]_vars

\* ------------------------------------------------------------------------
\* Claims about retrieve (Spec)
\* ------------------------------------------------------------------------
Raised == {name \in DOMAIN task : task[name].outcome = "raised"}

Succeeded == {name \in DOMAIN task : task[name].outcome = "returned"}

\* C1  Partial failure isolation: when the backend call of one or more
\* dispatched routes raises, retrieve still returns a normal response, and
\* every record of the response has a chunk_id returned by a route whose
\* backend call succeeded.
C1_PartialFailureIsolation ==
    (pc = "DONE" /\ Raised # {}) =>
        /\ response.status = "ok"
        /\ \A n \in 1..Len(response.results) :
              \E name \in Succeeded :
                 response.results[n].chunk_id \in IdsOf(task[name].hits)

C1_Witness ==
    /\ pc = "DONE"
    /\ Raised # {}
    /\ Succeeded # {}
    /\ Len(response.results) > 0

\* C2  Top-k truncation: the response holds at most top_k records, and they
\* are the first min(top_k, length) records of the fused and sorted list, in
\* the same order.
C2_TopKTruncation ==
    pc = "DONE" =>
        /\ Len(response.results) <= request.top_k
        /\ Len(response.results) =
              (IF request.top_k < Len(fused_results) THEN request.top_k
               ELSE Len(fused_results))
        /\ \A n \in 1..Len(response.results) :
              /\ response.results[n].chunk_id = GetChunkId(fused_results[n])
              /\ response.results[n].score = FormatScore(fused_results[n])

C2_Witness ==
    /\ pc = "DONE"
    /\ Len(fused_results) > request.top_k
    /\ Len(response.results) = request.top_k
    /\ Len(results_by_route) > 1

\* C3  Join barrier: fusion does not start and nothing is returned until every
\* dispatched route invocation has completed or failed; while a dispatched
\* route is still running nothing has been collected, fused or returned.
C3_JoinBarrier ==
    /\ pc \in {"FUSING", "TRUNCATING", "DONE"} =>
          \A j \in 1..Len(tasks) : task[tasks[j]].state = "done"
    /\ (\E j \in 1..Len(tasks) : task[tasks[j]].state # "done") =>
          /\ results_by_route = <<>>
          /\ fused_results = <<>>
          /\ response.status = "none"

C3_Witness ==
    /\ pc = "FUSING"
    /\ Len(tasks) = 2
    /\ Raised # {}
    /\ Succeeded # {}
    /\ Len(results_by_route) = 2

\* the dispatched routes whose coroutine returned a non-empty list
NonEmptyRoutes == {name \in DOMAIN task : task[name].value # <<>>}

\* the records of a route as the response shows them when nothing is fused
OwnRecords(name, top_k) ==
    LET kept == Take(task[name].value, top_k)
    IN  [n \in 1..Len(kept) |->
            [chunk_id |-> kept[n]["chunk_id"], score |-> Rat(kept[n]["score"], 1),
             route_scores |-> <<>>, content |-> kept[n]["content"]]]

\* C11  Fuse-or-pass-through decision: the Fusion Ranker is invoked if and
\* only if at least two dispatched routes returned non-empty lists; with
\* exactly one non-empty route the response records are that route's records,
\* in its order, with its own scores, unfused; with none the results are empty.
C11_FuseOrPassThrough ==
    pc \in {"TRUNCATING", "DONE"} =>
        /\ fuse_ret.returned <=> Cardinality(NonEmptyRoutes) >= 2
        /\ \A name \in NonEmptyRoutes :
              NonEmptyRoutes = {name} =>
                 /\ fused_results = task[name].value
                 /\ pc = "DONE" =>
                       response.results = OwnRecords(name, request.top_k)
        /\ NonEmptyRoutes = {} =>
              /\ fused_results = <<>>
              /\ pc = "DONE" => response.results = <<>>

\* every dispatched route called its backend and the call raised
AllRoutesFailed ==
    /\ tasks # <<>>
    /\ \A j \in 1..Len(tasks) : task[tasks[j]].outcome = "raised"

\* C12  Total route failure is not an error: when every dispatched route
\* fails, no exception leaves a route coroutine, and retrieve returns a normal
\* response whose results are empty and whose query_used is the query that was
\* handed to the routes.
C12_TotalFailureNotAnError ==
    AllRoutesFailed =>
        /\ \A j \in 1..Len(tasks) : ~task[tasks[j]].exception
        /\ response.status \in {"none", "ok"}
        /\ pc = "DONE" =>
              /\ response.status = "ok"
              /\ response.results = <<>>
              /\ \A j \in 1..Len(tasks) :
                    response.query_used = task[tasks[j]].query

C12_Witness ==
    /\ pc = "DONE"
    /\ Len(tasks) = 2
    /\ AllRoutesFailed
    /\ llm.state = "replied"
    /\ response = [status |-> "ok", query_used |-> "q2", results |-> <<>>]

\* the routes have been dispatched, each with query q
DispatchedWith(q) ==
    /\ pc \in {"DISPATCHING", "FUSING", "TRUNCATING", "DONE"}
    /\ tasks = BuildTasks(request.routes)
    /\ \A j \in 1..Len(tasks) : task[tasks[j]].query = q

\* the reply has the shape the prompt of the method asks for: a JSON array
\* for keywords, a JSON object with the fields query and keywords for llm
ExpectedShape(method, reply) ==
    /\ reply.kind = "json"
    /\ IF method = "llm"
       THEN /\ reply.value.type = "dict"
            /\ {"query", "keywords"} \subseteq DOMAIN reply.value.fields
            /\ reply.value.fields["keywords"].type = "list"
       ELSE reply.value.type = "list"

\* C14 as claimed  Rewrite failure never aborts retrieval: if the LLM call
\* raises or its reply is not valid JSON or not of the expected shape, rewrite
\* returns {query: original query, keywords: [original query]} and retrieve
\* dispatches the routes with the original query.
C14_RewriteFailureNeverAborts ==
    (llm.state = "replied" /\ ~ExpectedShape(request.rewrite.method, llm.reply)) =>
        /\ query_used = QueryOf(request)
        /\ keywords = <<QueryOf(request)>>
        /\ DispatchedWith(QueryOf(request))

\* the replies the rewriter treats as a failure: the call raised, json.loads
\* raised, or (llm) the parsed value has no .get
RewriteFailed(method, reply) ==
    \/ reply.kind \in {"raise", "text"}
    \/ method = "llm" /\ reply.kind = "json" /\ reply.value.type # "dict"

\* C14 as amended  If the LLM call raises or its reply is not valid JSON, or
\* for llm is JSON that is not an object, rewrite returns {query: original
\* query, keywords: [original query]} and retrieve dispatches the routes with
\* the original query.  Every other reply is used, not discarded, and retrieve
\* dispatches the routes with the query the rewriter handed back: the original
\* query for keywords and for an llm object without a query field.
C14_RewriteFailureFallback ==
    llm.state = "replied" =>
        /\ DispatchedWith(query_used)
        /\ RewriteFailed(request.rewrite.method, llm.reply) =>
              /\ query_used = QueryOf(request)
              /\ keywords = <<QueryOf(request)>>
        /\ (request.rewrite.method = "keywords"
              \/ (llm.reply.kind = "json" /\ llm.reply.value.type = "dict"
                    /\ "query" \notin DOMAIN llm.reply.value.fields)) =>
              query_used = QueryOf(request)

C14_Witness ==
    /\ pc = "DONE"
    /\ request.rewrite.method = "llm"
    /\ llm = [state |-> "replied", reply |-> [kind |-> "text"]]
    /\ query_used = "q"
    /\ keywords = <<"q">>
    /\ Len(tasks) = 2
    /\ DispatchedWith("q")

\* the request asks for a vector route on a backend _search_vector does not know
UnknownBackendAsked ==
    /\ VectorEnabled(request.routes)
    /\ VectorBackend(request.routes) \notin {"milvus", "es", "clickhouse"}

\* what the other route, es_text, returned (nothing when it was not dispatched)
EsTextValue == IF "es_text" \in DOMAIN task THEN task["es_text"].value ELSE <<>>

\* C16  Unknown vector backend: a vector route whose backend is not milvus, es
\* or clickhouse calls no backend and yields an empty list, no exception; the
\* request completes normally and its records are those of the other route.
C16_UnknownVectorBackend ==
    UnknownBackendAsked =>
        LET name == "vector_" \o VectorBackend(request.routes)
        IN  name \in DOMAIN task =>
               /\ task[name].state \in {"scheduled", "done"}
               /\ task[name].outcome = "none"
               /\ task[name].value = <<>>
               /\ ~task[name].exception
               /\ pc = "DONE" =>
                     /\ response.status = "ok"
                     /\ Len(response.results) =
                           (IF request.top_k < Len(EsTextValue)
                            THEN request.top_k ELSE Len(EsTextValue))
                     /\ \A n \in 1..Len(response.results) :
                           response.results[n].chunk_id \in IdsOf(EsTextValue)

C16_Witness ==
    /\ pc = "DONE"
    /\ UnknownBackendAsked
    /\ tasks = <<"es_text", "vector_faiss">>
    /\ task["vector_faiss"].state = "done"
    /\ Len(response.results) = 2

\* the transitions of the state machine of one request
PhaseOrder ==
    {<<"PARSED", "REWRITING">>, <<"PARSED", "DISPATCHING">>,
     <<"REWRITING", "DISPATCHING">>, <<"DISPATCHING", "FUSING">>,
     <<"FUSING", "TRUNCATING">>, <<"TRUNCATING", "DONE">>}

Dispatched == pc \in {"DISPATCHING", "FUSING", "TRUNCATING", "DONE"}

PhaseStep ==
    /\ pc' # pc => <<pc, pc'>> \in PhaseOrder
    /\ pc' = "REWRITING" <=> (pc = "PARSED" /\ request.rewrite.enabled)
    \* the rewriter is called in REWRITING only and has returned before the
    \* first route coroutine exists
    /\ llm'.state = "awaiting" <=> pc' = "REWRITING"
    /\ tasks' # <<>> => (llm'.state # "awaiting" /\ pc' \notin {"PARSED", "REWRITING"})
    \* no rewriter call once dispatch has begun
    /\ Dispatched => (llm' = llm /\ query_used' = query_used /\ tasks' = tasks)
    \* route coroutines run in DISPATCHING only
    /\ task' # task => pc' = "DISPATCHING"

\* C17  Phase order of one request: PARSED, REWRITING (only if
\* rewrite.enabled), DISPATCHING, FUSING, TRUNCATING, DONE, in that order and
\* never backward; the rewriter call has returned before the first route is
\* dispatched and there is no rewriter call after dispatch has begun.
C17_PhaseOrder == [][PhaseStep]_vars

C17_Witness ==
    /\ pc = "DONE"
    /\ request.rewrite.enabled
    /\ llm.state = "replied"
    /\ Len(tasks) = 2
    /\ response.status = "ok"

\* the per-route results in dispatch order, whatever the order of completion
InDispatchOrder ==
    [j \in 1..Len(tasks) |-> [route |-> tasks[j], results |-> task[tasks[j]].value]]

\* the route whose payload a response record must carry: the first route, in
\* dispatch order, that returned the chunk_id
FirstRouteWith(chunk_id) ==
    LET with == {j \in 1..Len(tasks) : chunk_id \in IdsOf(task[tasks[j]].value)}
    IN  tasks[CHOOSE j \in with : \A i \in with : j <= i]

\* C18  Independence from completion order: fusion iterates over the routes
\* in dispatch order (es_text before the vector route), and the response
\* (record order, scores, route_scores, payload) is determined by the request
\* and the per-route results alone, for every order of completion.
C18_CompletionOrderIndependence ==
    pc \in {"FUSING", "TRUNCATING", "DONE"} =>
        /\ results_by_route = InDispatchOrder
        /\ Len(tasks) = 2 => results_by_route[1].route = "es_text"
        /\ pc = "DONE" =>
              /\ response.results =
                    Respond(query_used,
                            Take(FuseOrPass(InDispatchOrder, request.fusion),
                                 request.top_k)).results
              /\ \A n \in 1..Len(response.results) :
                    response.results[n].content =
                        FirstRouteWith(response.results[n].chunk_id)

C18_Witness ==
    /\ pc = "DONE"
    /\ Len(tasks) = 2
    /\ task[tasks[2]].finished = 1
    /\ task[tasks[1]].finished = 2
    /\ request.fusion.has_weights
    /\ \E n \in 1..Len(response.results) :
          /\ response.results[n].chunk_id \in IdsOf(task[tasks[1]].value)
          /\ response.results[n].chunk_id \in IdsOf(task[tasks[2]].value)
          /\ response.results[n].content = "es_text"
          /\ DOMAIN response.results[n].route_scores = {tasks[1], tasks[2]}

\* the vector routes whose backend search has been called
VectorSearched ==
    {name \in DOMAIN task : name # "es_text" /\ task[name].sent.type # "none"}

\* C21  Embedding before vector search: in a vector route the embedding
\* provider is called on the query before the backend's search is called, and
\* the search receives the resulting vector; no vector backend is searched
\* without a query embedding having been obtained first.
C21_EmbeddingBeforeVectorSearch ==
    \A name \in VectorSearched :
        /\ task[name].embedded
        /\ task[name].sent.type = "vector"

\* C26  Default weights through the orchestrator: when the request selects
\* weighted_sum and supplies no fusion weights, and at least two routes return
\* results, retrieve fuses with equal weights over the participating routes,
\* so a candidate with a positive normalized score in some route gets a
\* positive final score.
C26_DefaultWeightsThroughOrchestrator ==
    (/\ pc \in {"TRUNCATING", "DONE"}
     /\ request.fusion.method = "weighted_sum"
     /\ ~request.fusion.has_weights
     /\ Cardinality(NonEmptyRoutes) >= 2) =>
        /\ fuse_ret.returned
        /\ fused_results =
              weighted_sum(results_by_route, EqualWeights(results_by_route))
        /\ \A n \in 1..Len(fused_results) :
              (\E route \in DOMAIN fused_results[n]["route_scores"] :
                  RLess(Zero, fused_results[n]["route_scores"][route])) =>
                 RLess(Zero, fused_results[n]["score"])

\* ------------------------------------------------------------------------
\* Claims about requests that arrive through the API (SpecApi)
\* ------------------------------------------------------------------------
QueryMissingOrEmpty == "query" \notin DOMAIN request \/ request["query"] = ""

C20_NonEmptyQueryAtDispatch ==
    \A name \in DOMAIN task : task[name].query # ""

\* method strings that are neither "keywords" nor "llm"
UnknownMethods == {"hyde", "", "LLM", "keyword"}

\* C23  Rewrite method dispatch: rewrite with a method other than keywords or
\* llm behaves exactly as method keywords; for keywords, and so for any
\* unknown method, the returned query is the original query unchanged, and
\* query_used in the response is the request's query.
C23_RewriteMethodDispatch ==
    /\ \A method \in UnknownMethods, reply \in LlmReplies :
          /\ rewrite("q", method, reply) = rewrite("q", "keywords", reply)
          /\ rewrite("q", method, reply).query = "q"
    /\ (llm.state = "replied" /\ request.rewrite.method # "llm") =>
          /\ query_used = request["query"]
          /\ keywords = rewrite_keywords(request["query"], llm.reply).keywords
          /\ \A name \in DOMAIN task : task[name].query = request["query"]
          /\ pc = "DONE" => response.query_used = request["query"]

C23_Witness ==
    /\ pc = "DONE"
    /\ request.rewrite.method = "hyde"
    /\ llm.state = "replied"
    /\ llm.reply = Json(PyDict("query" :> PyStr("q2") @@ "keywords" :> PyList(<<"k1">>)))
    /\ keywords = <<"{...}">>
    /\ Len(tasks) = 2
    /\ response.query_used = "q"

\* ------------------------------------------------------------------------
\* Claims about the routes mapping (SpecRoutes)
\* ------------------------------------------------------------------------
\* the entry of a route key is absent, false, an empty mapping, or a mapping
\* with enabled = false
RouteOff(routes, key) ==
    \/ key \notin DOMAIN routes
    \/ routes[key] = PyBool(FALSE)
    \/ /\ routes[key].type = "dict"
       /\ \/ DOMAIN routes[key].fields = {}
          \/ /\ "enabled" \in DOMAIN routes[key].fields
             /\ routes[key].fields["enabled"] = PyBool(FALSE)

\* C22  Disabled routes are skipped: a route is dispatched if and only if its
\* entry in the routes mapping is enabled; when a route key is absent or holds
\* false, an empty mapping or enabled = false, retrieve makes no backend call
\* for that route and still completes normally with the remaining routes.
C22_DisabledRoutesSkipped ==
    /\ pc # "RAISED"
    /\ response.status \in {"none", "ok"}
    /\ pc \in {"DISPATCHING", "FUSING", "TRUNCATING", "DONE"} =>
          /\ "es_text" \in DOMAIN task <=> ~RouteOff(request.routes, "es_text")
          /\ (DOMAIN task \ {"es_text"} # {}) <=> ~RouteOff(request.routes, "vector")

\* ------------------------------------------------------------------------
\* Claims about retrieve on top of the indexers (SpecIndexers)
\* ------------------------------------------------------------------------
\* the relevance score the adapter attached to a record
BackendScore(record) == record["_score"]

\* C27  Backend score reaches fusion: the raw score the ranker normalizes or
\* ranks by for a candidate is the backend-native score the adapter attached
\* to it, and in the single-route path the response's score is that same
\* score; two candidates of one route with different backend scores never
\* read as having the same raw score.
C27_BackendScoreReachesFusion ==
    pc \in {"FUSING", "TRUNCATING", "DONE"} =>
        /\ \A j \in 1..Len(results_by_route) :
              LET results == results_by_route[j].results
              IN  \A a, b \in 1..Len(results) :
                     /\ GetScore(results[a]) = BackendScore(results[a])
                     /\ BackendScore(results[a]) # BackendScore(results[b]) =>
                           GetScore(results[a]) # GetScore(results[b])
        /\ (pc = "DONE" /\ Len(results_by_route) = 1) =>
              \A n \in 1..Len(response.results) :
                 response.results[n].score =
                     Rat(BackendScore(results_by_route[1].results[n]), 1)

\* ------------------------------------------------------------------------
\* Claims about concurrent calls (SpecTwo)
\* ------------------------------------------------------------------------
\* what call c returns when it runs alone and its backends answer as they did
AloneResponse(c) ==
    LET f == calls[c]
        own == [j \in 1..Len(f.tasks) |->
                   [route |-> f.tasks[j], results |-> f.task[f.tasks[j]].value]]
    IN  Respond(f.query_used,
                Take(FuseOrPass(own, f.request.fusion), f.request.top_k))

\* C19  No interference between concurrent requests: in every interleaving of
\* two retrieve calls on one RetrieverService, the response of each call is
\* the response it gets when it runs alone against the same backend results:
\* its own query_used and the fusion of its own routes' records only.
C19_NoInterference ==
    \A c \in CallIds :
        LET f == calls[c]
        IN  /\ f.pc \in {"FUSING", "TRUNCATING", "DONE"} =>
                  \A j \in 1..Len(f.results_by_route) :
                      f.results_by_route[j].results = f.task[f.tasks[j]].value
            /\ f.pc = "DONE" =>
                  /\ f.response = AloneResponse(c)
                  /\ \A n \in 1..Len(f.response.results) :
                        f.response.results[n].chunk_id \in CallChunks(c)

C19_Witness ==
    /\ calls[1].pc = "DONE"
    /\ calls[2].pc = "DONE"
    /\ calls[1].response.query_used = "qa2"
    /\ calls[2].response.query_used = "qb"
    /\ Len(calls[1].response.results) = 2
    /\ Len(calls[2].response.results) = 2
    /\ calls[1].response.results[1].chunk_id = "x1"
    /\ calls[2].response.results[1].chunk_id = "x3"

\* ------------------------------------------------------------------------
\* Claims about FusionRanker (SpecScores, SpecMerge, SpecWeights)
\* ------------------------------------------------------------------------
ArgRoutes == fuse_args.by_route

Fused == fuse_ret.value

Returns(j, chunk_id) ==
    \E i \in 1..Len(ArgRoutes[j].results) :
        ArgRoutes[j].results[i]["chunk_id"] = chunk_id

\* position of chunk_id in route j's list
PosIn(j, chunk_id) ==
    CHOOSE i \in 1..Len(ArgRoutes[j].results) :
        ArgRoutes[j].results[i]["chunk_id"] = chunk_id

RawScore(j, i) == ArgRoutes[j].results[i]["score"]

RawScores(j) == {RawScore(j, i) : i \in 1..Len(ArgRoutes[j].results)}

MaxOf(S) == CHOOSE x \in S : \A y \in S : y <= x

MinOf(S) == CHOOSE x \in S : \A y \in S : x <= y

FusedOf(chunk_id) ==
    Fused[CHOOSE n \in 1..Len(Fused) : Fused[n]["chunk_id"] = chunk_id]

InFused(chunk_id) == \E n \in 1..Len(Fused) : Fused[n]["chunk_id"] = chunk_id

\* C4  Payload merge precedence: when several routes return the same chunk_id,
\* the fused record's payload field is the value of the first route, in the
\* iteration order of results_by_route, that set the field; a later route never
\* overwrites it.  For weighted_sum and for rrf.
C4_PayloadMergePrecedence ==
    fuse_ret.returned =>
        \A n \in 1..Len(Fused) :
            LET chunk_id == Fused[n]["chunk_id"]
                setters == {j \in 1..Len(ArgRoutes) :
                               /\ Returns(j, chunk_id)
                               /\ "content" \in DOMAIN
                                     ArgRoutes[j].results[PosIn(j, chunk_id)]}
            IN  IF setters = {} THEN "content" \notin DOMAIN Fused[n]
                ELSE /\ "content" \in DOMAIN Fused[n]
                     /\ Fused[n]["content"] =
                           ArgRoutes[MinOf(setters)].results[
                               PosIn(MinOf(setters), chunk_id)]["content"]

C4_Witness ==
    /\ fuse_ret.returned
    /\ fuse_args.method = "rrf"
    /\ \E chunk_id \in ChunkIds :
          /\ Returns(1, chunk_id) /\ Returns(2, chunk_id)
          /\ "content" \in DOMAIN ArgRoutes[1].results[PosIn(1, chunk_id)]
          /\ "content" \in DOMAIN ArgRoutes[2].results[PosIn(2, chunk_id)]
          /\ ArgRoutes[1].results[PosIn(1, chunk_id)]["content"]
                # ArgRoutes[2].results[PosIn(2, chunk_id)]["content"]
          /\ FusedOf(chunk_id)["content"] = "content of es_text"

\* the min-max normalized score the specification asks for
MinMax(j, i) ==
    IF MaxOf(RawScores(j)) > MinOf(RawScores(j))
    THEN Rat(RawScore(j, i) - MinOf(RawScores(j)),
             MaxOf(RawScores(j)) - MinOf(RawScores(j)))
    ELSE One

RouteScore(j, i) ==
    FusedOf(ArgRoutes[j].results[i]["chunk_id"])["route_scores"][ArgRoutes[j].route]

\* C6  Min-max normalization bounds: in weighted_sum, for a route with at least
\* two distinct raw scores, every normalized score recorded in route_scores
\* lies in [0, 1], the highest raw score gets exactly 1 and the lowest exactly 0.
C6_MinMaxBounds ==
    (fuse_ret.returned /\ fuse_args.method = "weighted_sum") =>
        \A j \in 1..Len(ArgRoutes) :
            Cardinality(RawScores(j)) >= 2 =>
                \A i \in 1..Len(ArgRoutes[j].results) :
                    /\ RouteScore(j, i)[2] > 0
                    /\ RLeq(Zero, RouteScore(j, i))
                    /\ RLeq(RouteScore(j, i), One)
                    /\ RawScore(j, i) = MaxOf(RawScores(j)) => RouteScore(j, i) = One
                    /\ RawScore(j, i) = MinOf(RawScores(j)) => RouteScore(j, i) = Zero

C6_Witness ==
    /\ fuse_ret.returned
    /\ fuse_args.method = "weighted_sum"
    /\ Cardinality(RawScores(1)) = 3
    /\ \E i \in 1..Len(ArgRoutes[1].results) :
          RLess(Zero, RouteScore(1, i)) /\ RLess(RouteScore(1, i), One)

\* C7  Degenerate normalization: in weighted_sum, for a route whose candidates
\* all have the same raw score (a single candidate included), every candidate
\* gets the normalized score 1, and no quotient has a zero denominator.
C7_DegenerateNormalization ==
    (fuse_ret.returned /\ fuse_args.method = "weighted_sum") =>
        \A j \in 1..Len(ArgRoutes) :
            Cardinality(RawScores(j)) = 1 =>
                \A i \in 1..Len(ArgRoutes[j].results) :
                    /\ RouteScore(j, i) = One
                    /\ FusedOf(ArgRoutes[j].results[i]["chunk_id"])["score"][2] > 0

C7_Witness ==
    /\ fuse_ret.returned
    /\ fuse_args.method = "weighted_sum"
    /\ Len(ArgRoutes[1].results) = 2
    /\ Cardinality(RawScores(1)) = 1
    /\ Len(ArgRoutes[2].results) = 1

\* the weight of route j after step 1; for weights that sum to 0 it is whatever
\* the ranker falls back to
SuppliedWeights == fuse_args.weights.map

StepOneWeight(j) ==
    LET total == SumValues(SuppliedWeights, DOMAIN SuppliedWeights)
    IN  IF total = 0
        THEN WeightOf(NormalizeWeights(SuppliedWeights), ArgRoutes[j].route)
        ELSE IF ArgRoutes[j].route \in DOMAIN SuppliedWeights
             THEN Rat(SuppliedWeights[ArgRoutes[j].route], total)
             ELSE Zero

RECURSIVE WeightedTotal(_, _)
WeightedTotal(chunk_id, j) ==
    IF j = 0 THEN Zero
    ELSE RAdd(WeightedTotal(chunk_id, j - 1),
              IF Returns(j, chunk_id)
              THEN RMul(MinMax(j, PosIn(j, chunk_id)), StepOneWeight(j))
              ELSE Zero)

\* A = [x1: 10, x2: 5], B = [x1: 0.9, x3: 0.95], weights A: 0.5, B: 0.5
ExampleWeightedSum ==
    [by_route |->
        <<[route |-> "es_text",
           results |-> <<[chunk_id |-> "x1", score |-> 200],
                         [chunk_id |-> "x2", score |-> 100]>>],
          [route |-> "vector_milvus",
           results |-> <<[chunk_id |-> "x1", score |-> 18],
                         [chunk_id |-> "x3", score |-> 19]>>]>>,
     method |-> "weighted_sum",
     weights |-> Given("es_text" :> 1 @@ "vector_milvus" :> 1)]

\* C8  Weighted-sum accumulation: the final score of every chunk_id in the
\* output of weighted_sum is the sum, over exactly the routes that returned it,
\* of the route's normalized score for it times the route's normalized weight.
\* For the example A, B above: x1 = 0.5, x3 = 0.5, x2 = 0, with x2 last.
C8_WeightedSumAccumulation ==
    (fuse_ret.returned /\ fuse_args.method = "weighted_sum") =>
        /\ \A n \in 1..Len(Fused) :
              Fused[n]["score"] = WeightedTotal(Fused[n]["chunk_id"], Len(ArgRoutes))
        /\ fuse_args = ExampleWeightedSum =>
              /\ Len(Fused) = 3
              /\ FusedOf("x1")["score"] = Rat(1, 2)
              /\ FusedOf("x3")["score"] = Rat(1, 2)
              /\ FusedOf("x2")["score"] = Zero
              /\ Fused[3]["chunk_id"] = "x2"

C8_Witness ==
    /\ fuse_ret.returned
    /\ fuse_args = ExampleWeightedSum
    /\ FusedOf("x1")["score"] = Rat(1, 2)

\* the 1-based rank of position i in route j: raw score descending, equal
\* scores in list order
RankOf(j, i) ==
    1 + Cardinality({h \in 1..Len(ArgRoutes[j].results) :
                        \/ RawScore(j, h) > RawScore(j, i)
                        \/ (RawScore(j, h) = RawScore(j, i) /\ h < i)})

RECURSIVE ReciprocalTotal(_, _)
ReciprocalTotal(chunk_id, j) ==
    IF j = 0 THEN Zero
    ELSE RAdd(ReciprocalTotal(chunk_id, j - 1),
              IF Returns(j, chunk_id)
              THEN Rat(1, 60 + RankOf(j, PosIn(j, chunk_id)))
              ELSE Zero)

\* route A ranks [x1, x2], route B ranks [x2, x1]
ExampleRrf ==
    [by_route |->
        <<[route |-> "es_text",
           results |-> <<[chunk_id |-> "x1", score |-> 200],
                         [chunk_id |-> "x2", score |-> 100]>>],
          [route |-> "vector_milvus",
           results |-> <<[chunk_id |-> "x2", score |-> 19],
                         [chunk_id |-> "x1", score |-> 18]>>]>>,
     method |-> "rrf",
     weights |-> NotGiven]

\* C9  Reciprocal rank fusion: each route's candidates are ranked 1, 2, 3, ...
\* by raw score descending; rank r contributes 1/(60 + r), strictly less for a
\* later rank; the final score is the sum of the contributions over the routes
\* that returned the candidate.  A = [x1, x2], B = [x2, x1] gives x1 and x2 the
\* same score 1/61 + 1/62.
C9_ReciprocalRankFusion ==
    (fuse_ret.returned /\ fuse_args.method = "rrf") =>
        /\ \A n \in 1..Len(Fused) :
              Fused[n]["score"] = ReciprocalTotal(Fused[n]["chunk_id"], Len(ArgRoutes))
        /\ \A j \in 1..Len(ArgRoutes) :
              \A a, b \in 1..Len(ArgRoutes[j].results) :
                 /\ RouteScore(j, a) = Rat(1, 60 + RankOf(j, a))
                 /\ RawScore(j, a) > RawScore(j, b) =>
                       RLess(RouteScore(j, b), RouteScore(j, a))
        /\ fuse_args = ExampleRrf =>
              /\ FusedOf("x1")["score"] = RAdd(Rat(1, 61), Rat(1, 62))
              /\ FusedOf("x2")["score"] = FusedOf("x1")["score"]

C9_Witness ==
    /\ fuse_ret.returned
    /\ fuse_args = ExampleRrf
    /\ FusedOf("x2")["score"] = RAdd(Rat(1, 61), Rat(1, 62))

RECURSIVE EqualShareTotal(_, _)
EqualShareTotal(chunk_id, j) ==
    IF j = 0 THEN Zero
    ELSE RAdd(EqualShareTotal(chunk_id, j - 1),
              IF Returns(j, chunk_id)
              THEN RMul(MinMax(j, PosIn(j, chunk_id)), Rat(1, Len(ArgRoutes)))
              ELSE Zero)

\* C5  Weight renormalization: for a weights mapping whose values sum to 0,
\* weighted_sum weighs each of the n routes present in results_by_route by 1/n,
\* whatever keys the mapping has: every final score is the sum of the route's
\* normalized scores times 1/n.
C5_ZeroSumEqualWeights ==
    (/\ fuse_ret.returned
     /\ fuse_args.method = "weighted_sum"
     /\ ~fuse_args.weights.none
     /\ SumValues(SuppliedWeights, DOMAIN SuppliedWeights) = 0) =>
        \A n \in 1..Len(Fused) :
            Fused[n]["score"] = EqualShareTotal(Fused[n]["chunk_id"], Len(ArgRoutes))

\* the route output contract: highest raw score first
HighestFirst(results) ==
    \A a, b \in 1..Len(results) : a < b => results[a]["score"] >= results[b]["score"]

\* C10  Fusion idempotence on a single route: fuse called with one route whose
\* list has unique chunk ids, highest raw score first, returns the same chunk
\* ids in the same order, for weighted_sum and rrf and any supplied weights.
C10_SingleRouteIdempotence ==
    (/\ fuse_ret.returned
     /\ Len(ArgRoutes) = 1
     /\ fuse_args.method \in {"weighted_sum", "rrf"}
     /\ HighestFirst(ArgRoutes[1].results)) =>
        /\ Len(Fused) = Len(ArgRoutes[1].results)
        /\ \A n \in 1..Len(Fused) :
              Fused[n]["chunk_id"] = ArgRoutes[1].results[n]["chunk_id"]

\* highest fused score first
Ranked(list) ==
    \A a, b \in 1..Len(list) : a < b => RLeq(list[b]["score"], list[a]["score"])

\* a weights mapping that is a configuration error: it sums to 0 or holds a
\* negative weight
BadWeights(weights) ==
    /\ ~weights.none
    /\ \/ SumValues(weights.map, DOMAIN weights.map) = 0
       \/ \E key \in DOMAIN weights.map : weights.map[key] < 0

\* C15  Fusion configuration errors never raise: fuse returns a ranked list for
\* any method string and any numeric weights; an unknown method gives the
\* weighted_sum result for the same weights, and weights that sum to 0 or hold
\* a negative weight are replaced by equal weights over the routes.
C15_FusionConfigNeverRaises ==
    fuse_ret.returned =>
        /\ Ranked(Fused)
        /\ fuse_args.method \notin {"weighted_sum", "rrf"} =>
              Fused = fuse(ArgRoutes, "weighted_sum", fuse_args.weights)
        /\ (fuse_args.method # "rrf" /\ BadWeights(fuse_args.weights)) =>
              \A n \in 1..Len(Fused) :
                  Fused[n]["score"] =
                      EqualShareTotal(Fused[n]["chunk_id"], Len(ArgRoutes))

\* C28  Fused output is ranked: the list fuse returns, for either method and
\* any inputs, is ordered by final score non-increasing, and each record's
\* score is its accumulated final score (for rrf the sum of 1/(60 + rank)),
\* not a raw score of a route.
C28_FusedOutputRanked ==
    fuse_ret.returned =>
        /\ Ranked(Fused)
        /\ \A n \in 1..Len(Fused) :
              /\ Fused[n]["score"] = Fused[n]["final_score"]
              /\ fuse_args.method = "rrf" =>
                    Fused[n]["score"] =
                        ReciprocalTotal(Fused[n]["chunk_id"], Len(ArgRoutes))
              /\ \A j \in 1..Len(ArgRoutes) :
                    Returns(j, Fused[n]["chunk_id"]) =>
                       Fused[n]["score"] #
                           Rat(RawScore(j, PosIn(j, Fused[n]["chunk_id"])), 1)

\* the sort moved a record: the chunk_id accumulated first is not on top
C28_Witness ==
    /\ fuse_ret.returned
    /\ fuse_args.method = "weighted_sum"
    /\ Len(ArgRoutes) = 2
    /\ Len(Fused) = 3
    /\ Len(ArgRoutes[1].results) = 2
    /\ Fused[1]["chunk_id"] # ArgRoutes[1].results[1]["chunk_id"]
    /\ RLess(Fused[2]["score"], Fused[1]["score"])
    /\ RLess(Fused[3]["score"], Fused[2]["score"])

\* the routes that returned chunk_id
RoutesWith(chunk_id) ==
    {ArgRoutes[j].route : j \in {i \in 1..Len(ArgRoutes) : Returns(i, chunk_id)}}

\* C29  Fusion neither loses nor invents candidates: for weighted_sum and for
\* rrf the fused list holds each chunk_id exactly once, its chunk ids are the
\* union of the chunk ids of all routes' lists, and the route_scores of each
\* fused record has an entry for exactly the routes that returned its chunk_id.
C29_FusionKeepsCandidates ==
    fuse_ret.returned =>
        /\ \A a, b \in 1..Len(Fused) :
              a # b => Fused[a]["chunk_id"] # Fused[b]["chunk_id"]
        /\ {Fused[n]["chunk_id"] : n \in 1..Len(Fused)} =
              UNION {IdsOf(ArgRoutes[j].results) : j \in 1..Len(ArgRoutes)}
        /\ \A n \in 1..Len(Fused) :
              DOMAIN Fused[n]["route_scores"] = RoutesWith(Fused[n]["chunk_id"])

C29_Witness ==
    /\ fuse_ret.returned
    /\ fuse_args.method = "rrf"
    /\ Len(ArgRoutes[1].results) = 2
    /\ Len(ArgRoutes[2].results) = 2
    /\ Len(Fused) = 3
    /\ \E n \in 1..3 : DOMAIN Fused[n]["route_scores"] = {"es_text", "vector_milvus"}
    /\ \E n \in 1..3 : DOMAIN Fused[n]["route_scores"] = {"vector_milvus"}
    /\ \E n \in 1..3 : DOMAIN Fused[n]["route_scores"] = {"es_text"}

\* ------------------------------------------------------------------------
\* Claims about load_config (SpecLoader)
\* ------------------------------------------------------------------------
\* the RAG_ variables of os.environ whose lowercased name is the key path
VarsNaming(path) ==
    {var \in sources.environ :
        /\ var.prefix = "RAG_"
        /\ [j \in 1..Len(var.parts) |-> Lower(var.parts[j])] = path}

\* the options given on the command line that are mapped to the key path
ArgsNaming(path) ==
    {name \in DOMAIN ArgMapping :
        ArgMapping[name] = path /\ sources.args[name] # PyNone}

\* the value each loaded source sets for a field, Absent when it sets none
FileValue(path) ==
    IF sources.config_file THEN ValueAt(sources.file_config, path) ELSE Absent

EnvironValue(path) ==
    IF sources.load_env /\ VarsNaming(path) # {}
    THEN EnvValue((CHOOSE var \in VarsNaming(path) : TRUE).value)
    ELSE Absent

ArgsValue(path) ==
    IF sources.load_args /\ ArgsNaming(path) # {}
    THEN sources.args[CHOOSE name \in ArgsNaming(path) : TRUE]
    ELSE Absent

\* the loaded sources that set the field
Setters(path) ==
    {name \in {"file", "env", "args"} :
        \/ name = "file" /\ FileValue(path) # Absent
        \/ name = "env" /\ EnvironValue(path) # Absent
        \/ name = "args" /\ ArgsValue(path) # Absent}

\* command-line arguments over environment variables over file over default
HighestPrecedence(path) ==
    IF ArgsValue(path) # Absent THEN ArgsValue(path)
    ELSE IF EnvironValue(path) # Absent THEN EnvironValue(path)
    ELSE IF FileValue(path) # Absent THEN FileValue(path)
    ELSE FieldDefaults[path]

\* a loaded environment variable holds a text at a section enclosing the field
SectionReplaced(path) ==
    /\ sources.load_env
    /\ \E n \in 1..(Len(path) - 1) : VarsNaming(SubSeq(path, 1, n)) # {}

RECURSIVE KeyPaths(_, _)
KeyPaths(prefix, fields) ==
    UNION {{Append(prefix, k)}
           \cup (IF fields[k].type = "dict"
                 THEN KeyPaths(Append(prefix, k), fields[k].fields)
                 ELSE {}) : k \in DOMAIN fields}

\* the key paths that hold a value that is not a mapping
LeafPaths(fields) ==
    {path \in KeyPaths(<<>>, fields) : ValueAt(fields, path).type # "dict"}

\* the leaves whose value differs between two nested dicts
ChangedLeaves(before, after) ==
    {path \in LeafPaths(after) : ValueAt(after, path) # ValueAt(before, path)}

\* the update holds a value that is not a mapping at a section enclosing
\* the key
UnderLeafOf(update, path) ==
    \E n \in 1..(Len(path) - 1) : SubSeq(path, 1, n) \in LeafPaths(update)

\* a step that merges an update: only leaves of the update change, and every
\* key the update does not mention keeps its value
MergeKeepsUnmentioned ==
    loader'.merged.type = "dict" =>
        LET before == loader.config_dict
            update == loader'.merged.fields
            after == loader'.config_dict
        IN  /\ ChangedLeaves(before, after) \subseteq LeafPaths(update)
            /\ \A path \in KeyPaths(<<>>, before) \ KeyPaths(<<>>, update) :
                   ValueAt(after, path) = ValueAt(before, path)

\* the same, but for the keys inside a section that the update replaces by
\* a value that is not a mapping
MergeKeepsUnreplaced ==
    loader'.merged.type = "dict" =>
        LET before == loader.config_dict
            update == loader'.merged.fields
            after == loader'.config_dict
        IN  /\ ChangedLeaves(before, after) \subseteq LeafPaths(update)
            /\ \A path \in KeyPaths(<<>>, before) \ KeyPaths(<<>>, update) :
                   IF UnderLeafOf(update, path)
                   THEN ValueAt(after, path) = Absent
                   ELSE ValueAt(after, path) = ValueAt(before, path)

\* C25  Nested configuration merge is a merge, not a replace, as the claim
\* states it: merging a nested update changes only the leaf keys present in
\* the update, and every key already present that the update does not
\* mention, at any nesting depth, keeps its previous value.
C25_NestedMergeKeepsUnmentioned == [][MergeKeepsUnmentioned]_vars

\* C25  Nested configuration merge, as the code has it: merging a nested
\* update changes only the leaf keys present in the update, and every key
\* already present that the update does not mention keeps its previous
\* value, except the keys inside a section at which the update holds a value
\* that is not a mapping: that value replaces the section and its keys are
\* gone.
C25_NestedMergeKeepsUnreplaced == [][MergeKeepsUnreplaced]_vars

\* the environment's update changed processing.chunk_size; the sibling
\* chunk_overlap and the section database.milvus, both from the file and not
\* mentioned by the update, are still there
C25_Witness ==
    /\ loader.pc = "ENV_DONE"
    /\ loader.merged = PyDict("processing" :> PyDict("chunk_size" :> PyInt(300)))
    /\ sources.file_config = ConfigOf(FileLeaves)
    /\ ValueAt(loader.config_dict, <<"processing", "chunk_size">>) = PyInt(300)
    /\ ValueAt(loader.config_dict, <<"processing", "chunk_overlap">>) = PyInt(10)
    /\ ValueAt(loader.config_dict, <<"database", "milvus", "host">>) = PyStr("milvus-file")
    /\ ValueAt(loader.config_dict, <<"database", "milvus", "port">>) = PyInt(1001)

\* ------------------------------------------------------------------------
\* Claims about ConfigVersionManager (SpecVersions)
\* ------------------------------------------------------------------------
\* what one call on the manager does to the table
VersionStep ==
    /\ Cardinality(ActiveVersions(versions')) <= 1
    /\ version_call'.op = "save_config" =>
           /\ ActiveVersions(versions') = ActiveVersions(versions)
           /\ \A id \in DOMAIN versions : versions'[id] = versions[id]
    /\ version_call'.op = "activate_config" =>
           IF version_call'.version_id \in DOMAIN versions
           THEN /\ version_call'.returned = PyBool(TRUE)
                /\ ActiveVersions(versions') = {version_call'.version_id}
           ELSE /\ version_call'.returned = PyBool(FALSE)
                /\ versions' = versions
    /\ version_call'.op = "get_active_config" =>
           version_call'.returned # PyStr("MultipleResultsFound")

\* C30  Single active configuration version: after any sequence of
\* save_config and activate_config calls on one ConfigVersionManager at most
\* one version has is_active = true; save_config leaves the active version
\* as it was; an activate_config(v) that succeeds leaves v as the only
\* active version; and activate_config on an id that does not exist returns
\* False and changes no version.
C30_SingleActiveVersion == [][VersionStep]_vars

\* three versions are saved and the last call activated v2: it returned True
\* and v2 is the only active version
C30_Witness ==
    /\ DOMAIN versions = VersionIds
    /\ version_call = [op |-> "activate_config", version_id |-> "v2",
                       returned |-> PyBool(TRUE)]
    /\ ActiveVersions(versions) = {"v2"}

====
